---- MODULE Spec2Model ----
(***************************************************************************)
(* Model of export2pdf_0424.py: the transcript front end (load, sort,      *)
(* group by date), the composition loop of generate_pdf with draw_message, *)
(* the outline-attach pass, and wrap_text / get_string_width.              *)
(*                                                                         *)
(* Lengths are in millimetres: every vertical length of the source is an   *)
(* integer multiple of reportlab's `mm`, and A4 is (210 mm, 297 mm).       *)
(* Timestamps are abstract ticks; TicksPerDay ticks make one calendar day. *)
(* datetime.fromtimestamp is taken in UTC, so tick 0 is 1970-01-01 00:00.  *)
(***************************************************************************)
EXTENDS Integers, Sequences, FiniteSets, TLC

VARIABLES
    pc,            \* position of generate_pdf
    chat_file,     \* the chat_file argument: [kind, data]
    chats,         \* the loaded message list
    sortPath,      \* which chats.sort call ordered the list
    dates_dict,    \* date -> messages of that date, in list order
    sorted_dates,  \* sorted(dates_dict.keys())
    canvas,        \* TRUE once PageTracker(output_file) exists
    y,             \* the cursor y of generate_pdf
    current_page,  \* PageTracker.current_page
    pageDirty,     \* the open page has content (reportlab's _code is non-empty)
    bookmarks,     \* the bookmarks list: <<title, page>> records
    date_idx,      \* index into sorted_dates of the date being processed
    msg_idx,       \* number of messages of that date already drawn
    calls,         \* number of draw_message calls made
    last,          \* what the last draw_message call was given and did
    firstPages,    \* per processed date: the page its first message was drawn on
    pageCount,     \* pages of the saved draft
    finalFile,     \* content of output_file
    tempCopy,      \* content of output_file.temp_<t>
    outTemp,       \* content of output_file.out_<t>
    outline,       \* outline entries given to the writer
    attachFail,    \* the step of the attach pass that failed
    reported,      \* the path the run last reported to the user
    w_font,        \* the widths of the registered fonts
    w_text,        \* wrap_text: the text argument
    w_max,         \* wrap_text: max_width
    w_lines,       \* wrap_text: the returned lines
    dm_ref,        \* download_media_file: src_path, media_type, msg_id
    cache_file,    \* content of the cache file of that reference
    dm_calls,      \* the download_media_file calls made: result and fetches
    asr_files,     \* the bytes of the audio file of each voice message
    asr_model,     \* funasr_model / FUNASR_AVAILABLE
    speech_cache,  \* SPEECH_CACHE_DIR: cache key -> stored text
    asr_calls,     \* the transcribe_with_funasr calls made
    avatar_heads,  \* the headImgUrl of each user
    avatar_queue,  \* avatar_queue: the URLs and stop signals not taken yet
    unfinished,    \* avatar_queue.unfinished_tasks
    threads,       \* the worker threads: position and URL in hand
    avatar_cache,  \* avatar_cache: URL -> image
    avatar_files,  \* the avatar_<md5>.jpg files of the temporary directory
    prepare_pc,    \* position of prepare_avatars
    pool_log,      \* how often each URL was taken, each file and key written
    sw_text,       \* get_string_width: the text measured
    sw_font,       \* the glyph widths of the font named by font_name
    string_width_cache,  \* string_width_cache[(text, font_name, font_size)]
    sw_origin,     \* how the cached width was computed
    sw_last,       \* the last call: the fonts' state and the outcome
    sw_n,          \* number of calls made
    td_text,       \* the text of a text message
    td_font,       \* the glyph widths of SimSun and EmojiFont
    td_max,        \* text_max_width * 0.8
    td_out,        \* what drawing the bubble did
    rp_ref,        \* get_real_media_path: the reference
    rp_disk,       \* the files of the working tree
    rp_out,        \* what get_real_media_path returned
    q_arg,         \* generate_pdf: the image_quality argument
    IMAGE_QUALITY, \* the global IMAGE_QUALITY
    q_used         \* the quality of each JPEG saved by compress_image

vars == <<pc, chat_file, chats, sortPath, dates_dict, sorted_dates, canvas, y,
          current_page, pageDirty, bookmarks, date_idx, msg_idx, calls, last,
          firstPages, pageCount, finalFile, tempCopy, outTemp, outline,
          attachFail, reported, w_font, w_text, w_max, w_lines,
          dm_ref, cache_file, dm_calls,
          asr_files, asr_model, speech_cache, asr_calls,
          avatar_heads, avatar_queue, unfinished, threads, avatar_cache,
          avatar_files, prepare_pc, pool_log,
          sw_text, sw_font, string_width_cache, sw_origin, sw_last, sw_n,
          td_text, td_font, td_max, td_out,
          rp_ref, rp_disk, rp_out,
          q_arg, IMAGE_QUALITY, q_used>>

frontVars == <<chats, sortPath, dates_dict, sorted_dates>>
composeVars == <<canvas, y, current_page, pageDirty, bookmarks, date_idx, msg_idx,
                 calls, last, firstPages, pageCount>>
attachVars == <<finalFile, tempCopy, outTemp, outline, attachFail, reported>>
wrapVars == <<w_font, w_text, w_max, w_lines>>
mediaVars == <<dm_ref, cache_file, dm_calls>>
asrVars == <<asr_files, asr_model, speech_cache, asr_calls>>
poolVars == <<avatar_heads, avatar_queue, unfinished, threads, avatar_cache,
              avatar_files, prepare_pc, pool_log>>
widthVars == <<sw_text, sw_font, string_width_cache, sw_origin, sw_last, sw_n>>
textVars == <<td_text, td_font, td_max, td_out>>
pathVars == <<rp_ref, rp_disk, rp_out>>
qualityVars == <<q_arg, IMAGE_QUALITY, q_used>>
lateVars == <<textVars, pathVars, qualityVars>>
sideVars == <<mediaVars, asrVars, poolVars, widthVars, lateVars>>

(***************************************************************************)
(* Bounds of the model.                                                    *)
(***************************************************************************)
MaxMsgs == 2        \* messages of a transcript (composition)
MaxFrontMsgs == 3   \* messages of a transcript (front end)
MaxLen == 4         \* codepoints of a text given to wrap_text
MaxWidth == 3       \* largest max_width given to wrap_text
MaxGlyph == 2       \* largest width of an emoji glyph
MaxBookmarks == 3   \* date bookmarks of a saved draft (attach pass)
MaxPages == 3       \* pages of a saved draft (attach pass)
MaxTime == 2        \* largest timestamp tick
TicksPerDay == 2    \* ticks of one calendar day

(***************************************************************************)
(* Small helpers.                                                          *)
(***************************************************************************)
Max(a, b) == IF a >= b THEN a ELSE b
Min(a, b) == IF a <= b THEN a ELSE b
Range(s) == {s[i] : i \in 1..Len(s)}
SeqsUpTo(S, n) == UNION {[1..k -> S] : k \in 0..n}

(***************************************************************************)
(* Transcript values.  A message of the list is [id, ct]: id is its        *)
(* position in the input list, ct its CreateTime as [rep, t]:              *)
(*   "int"    a JSON number t          "digits" a string of digits t       *)
(*   "date"   a string in one of the four date formats, denoting tick t    *)
(*   "bad"    any other string         "none"   the key is absent          *)
(* The other fields of a message are read by draw_message only and are     *)
(* drawn from MsgShapes when the message is drawn.                         *)
(***************************************************************************)
Times == 0..MaxTime
CreateTimes ==
    {[rep |-> r, t |-> t] : r \in {"int", "digits", "date"}, t \in Times}
        \cup {[rep |-> "bad", t |-> 0], [rep |-> "none", t |-> 0]}
IntTimes == {[rep |-> "int", t |-> t] : t \in 1..MaxTime}

MsgList(cts) == [i \in 1..Len(cts) |-> [id |-> i, ct |-> cts[i]]]

\* chat_file: a path to an existing file, a string that is no such path, a
\* list, or anything else.  json tells what the text (or value) denotes:
\* "invalid" (no JSON), "nonlist" (JSON, but no list) or "list" with msgs.
BadInputs ==
    {[kind |-> k, json |-> d, msgs |-> <<>>] :
        k \in {"path", "text"}, d \in {"invalid", "nonlist"}}
        \cup {[kind |-> "other", json |-> "nonlist", msgs |-> <<>>]}
Inputs(CT, n) ==
    {[kind |-> "list", json |-> "list", msgs |-> MsgList(cts)] :
        cts \in SeqsUpTo(CT, n)}
        \cup {[kind |-> k, json |-> "list", msgs |-> MsgList(cts)] :
                k \in {"path", "text"}, cts \in SeqsUpTo(CT, 1)}

\* A transcript the run must reject: missing (a path that does not exist is
\* taken as JSON text and fails to parse), unparseable, not a list, empty.
InvalidTranscript(cf) ==
    cf.kind = "other" \/ cf.json # "list" \/ cf.msgs = <<>>

(***************************************************************************)
(* load_json_file and the validation of generate_pdf.                      *)
(***************************************************************************)
\* load_json_file: the parsed value, or {} (not a list) when loading fails
load_json_file(cf) ==
    IF cf.json = "list" THEN [val |-> "list", msgs |-> cf.msgs]
    ELSE [val |-> "nonlist", msgs |-> <<>>]

\* lines 2054-2070: the value of chats, or "return" when generate_pdf returns
LoadChats(cf) ==
    CASE cf.kind = "path" -> load_json_file(cf)
      [] cf.kind = "text" ->
            IF cf.json = "invalid" THEN [val |-> "return", msgs |-> <<>>]
            ELSE [val |-> cf.json, msgs |-> cf.msgs]
      [] cf.kind = "list" -> [val |-> "list", msgs |-> cf.msgs]
      [] OTHER -> [val |-> "return", msgs |-> <<>>]

\* line 2073: not isinstance(chats, list) or not chats
RejectsChatsNoEmptyCheck(c) == c.val # "list"
RejectsChats(c) == c.val # "list" \/ c.msgs = <<>>

(***************************************************************************)
(* parse_timestamp, the two sort keys, and the sort.                       *)
(***************************************************************************)
None == -1

\* parse_timestamp: the tick of the datetime, or None
parse_timestamp(ct) ==
    CASE ct.rep = "none" -> None
      [] ct.rep = "bad" -> None
      [] ct.rep = "int" -> IF ct.t = 0 THEN None ELSE ct.t
      [] OTHER -> ct.t

\* line 2098: x.get("CreateTime", "").isdigit() raises on a number
FirstKeyRaises(m) == m.ct.rep = "int"
FirstKey(m) == IF m.ct.rep = "digits" THEN m.ct.t ELSE 0

\* line 2103: parse_timestamp(...) or datetime(1970, 1, 1)
FallbackKey(m) ==
    IF parse_timestamp(m.ct) = None THEN 0 ELSE parse_timestamp(m.ct)

\* list.sort(key=...): ascending and stable.  pos[i] is the place of s[i].
StableRank(s, keys, i) ==
    Cardinality({j \in 1..Len(s) :
        keys[j] < keys[i] \/ (keys[j] = keys[i] /\ j <= i)})
ListSort(s, keys) ==
    [p \in 1..Len(s) |-> s[CHOOSE i \in 1..Len(s) : StableRank(s, keys, i) = p]]

\* lines 2096-2105: which sort orders the list
SortPathOf(c) == IF \E i \in 1..Len(c) : FirstKeyRaises(c[i]) THEN "fallback" ELSE "first"
SortKeyOf(path, m) == IF path = "first" THEN FirstKey(m) ELSE FallbackKey(m)
SortChats(c) ==
    ListSort(c, [i \in 1..Len(c) |-> SortKeyOf(SortPathOf(c), c[i])])

(***************************************************************************)
(* get_date_from_timestamp and the grouping by date.                       *)
(***************************************************************************)
\* "if timestamp:" of line 2110
Truthy(ct) == ~(ct.rep = "none" \/ (ct.rep = "int" /\ ct.t = 0))

EpochDateOnFailure(ct) ==
    IF parse_timestamp(ct) = None THEN 0 ELSE parse_timestamp(ct) \div TicksPerDay
get_date_from_timestamp(ct) ==
    IF parse_timestamp(ct) = None THEN None ELSE parse_timestamp(ct) \div TicksPerDay

Grouped(m) == Truthy(m.ct) /\ get_date_from_timestamp(m.ct) # None

\* lines 2108-2114: dates_dict
GroupByDate(c) ==
    LET ds == {get_date_from_timestamp(c[i].ct) : i \in {j \in 1..Len(c) : Grouped(c[j])}}
    IN  [d \in ds |->
            SelectSeq(c, LAMBDA m : Grouped(m) /\ get_date_from_timestamp(m.ct) = d)]

\* sorted(dates_dict.keys()): "YYYY-MM-DD" strings sort as the days do
RECURSIVE AscendingSeq(_)
AscendingSeq(S) ==
    IF S = {} THEN <<>>
    ELSE LET m == CHOOSE x \in S : \A z \in S : x <= z
         IN  <<m>> \o AscendingSeq(S \ {m})
ReverseSortedDates(dd) ==
    LET a == AscendingSeq(DOMAIN dd)
    IN  [i \in 1..Len(a) |-> a[Len(a) + 1 - i]]
SortedDates(dd) == AscendingSeq(DOMAIN dd)

(***************************************************************************)
(* get_string_width and wrap_text.  A text is a sequence of codepoint      *)
(* classes, the classes the range tests of the source tell apart:          *)
(*   "P"   outside every tested range                                      *)
(*   "E"   in an emoji range, no skin-tone modifier                        *)
(*   "SK"  U+1F3FB-1F3FF: a skin-tone modifier, inside the emoji range     *)
(*         U+1F300-1F5FF as well                                           *)
(*   "VS"  U+FE00-FE0F, a variant selector      "ZWJ"  U+200D              *)
(* A font is [plain, emoji, mod]: the widths stringWidth gives a plain     *)
(* character, an emoji, and a variant selector or joiner measured as part  *)
(* of a string without emoji.                                              *)
(***************************************************************************)
CodeClasses == {"P", "E", "SK", "VS", "ZWJ"}
Texts == SeqsUpTo(CodeClasses, MaxLen)
Fonts == {[plain |-> 1, emoji |-> e, mod |-> m] : e \in 1..MaxGlyph, m \in 0..1}

\* the six emoji ranges (lines 804-809, 819-824, 911-916)
IsEmojiStart(ch) == ch \in {"E", "SK"}
\* is_modifier (lines 828-832); the outer loop of wrap_text (lines 923-925)
IsModifier(ch) == ch \in {"VS", "SK", "ZWJ"}
\* the inner loop of wrap_text (lines 933-940): emoji, selector or skin tone
IsChained(ch) == ch \in {"E", "SK", "VS"}

\* lines 816-859: one character of a text that contains an emoji
EmojiPathWidth(font, ch) ==
    IF IsModifier(ch) THEN 0
    ELSE IF IsEmojiStart(ch) THEN font.emoji
    ELSE font.plain

\* c.stringWidth of one character of a text without emoji
DirectWidth(font, ch) == IF ch = "P" THEN font.plain ELSE font.mod

RECURSIVE SumWidths(_, _, _)
SumWidths(font, text, emojiPath) ==
    IF text = <<>> THEN 0
    ELSE (IF emojiPath THEN EmojiPathWidth(font, Head(text))
          ELSE DirectWidth(font, Head(text)))
         + SumWidths(font, Tail(text), emojiPath)

\* get_string_width taking the per-character path of lines 817-859 for every
\* text, so that selectors and joiners never count
PerCharacterWidth(font, text) == SumWidths(font, text, TRUE)

\* get_string_width(c, text, font_name, font_size)
get_string_width(font, text) ==
    SumWidths(font, text, \E i \in 1..Len(text) : IsEmojiStart(text[i]))

\* lines 932-943: after a joiner, take emoji, selectors and skin tones
RECURSIVE ChainScan(_, _)
ChainScan(text, j) ==
    IF j <= Len(text) /\ IsChained(text[j]) THEN ChainScan(text, j + 1) ELSE j
NoChainScan(text, j) == j
AfterJoiner(text, j) == ChainScan(text, j)

\* lines 922-943: the index just past the unit whose modifiers start at j
RECURSIVE ModifierScan(_, _)
ModifierScan(text, j) ==
    IF j <= Len(text) /\ IsModifier(text[j])
    THEN IF j + 1 <= Len(text) /\ text[j] = "ZWJ"
         THEN ModifierScan(text, AfterJoiner(text, j + 1))
         ELSE ModifierScan(text, j + 1)
    ELSE j

\* emoji_length of the unit that starts at i (lines 906-943)
EmojiLength(text, i) ==
    IF IsEmojiStart(text[i]) THEN ModifierScan(text, i + 1) - i ELSE 1

\* the loop of wrap_text without the test of line 955: the current line is
\* added before the unit that does not fit even when it is empty
RECURSIVE WrapAlwaysFlush(_, _, _, _, _, _)
WrapAlwaysFlush(font, text, max_width, i, lines, current_line) ==
    IF i > Len(text)
    THEN IF current_line # <<>> THEN Append(lines, current_line) ELSE lines
    ELSE LET n == EmojiLength(text, i)
             current_char == SubSeq(text, i, i + n - 1)
             test_line == current_line \o current_char
         IN  IF get_string_width(font, test_line) <= max_width
             THEN WrapAlwaysFlush(font, text, max_width, i + n, lines, test_line)
             ELSE IF get_string_width(font, current_char) > max_width
                  THEN WrapAlwaysFlush(font, text, max_width, i + n,
                                       Append(Append(lines, current_line), current_char), <<>>)
                  ELSE WrapAlwaysFlush(font, text, max_width, i + n,
                                       Append(lines, current_line), current_char)
\* lines 904-968: the loop of wrap_text from index i
RECURSIVE WrapFrom(_, _, _, _, _, _)
WrapFrom(font, text, max_width, i, lines, current_line) ==
    IF i > Len(text)
    THEN IF current_line # <<>> THEN Append(lines, current_line) ELSE lines
    ELSE LET n == EmojiLength(text, i)
             current_char == SubSeq(text, i, i + n - 1)
             test_line == current_line \o current_char
         IN  IF get_string_width(font, test_line) <= max_width
             THEN WrapFrom(font, text, max_width, i + n, lines, test_line)
             ELSE LET flushed == IF current_line # <<>>
                                 THEN Append(lines, current_line) ELSE lines
                  IN  IF get_string_width(font, current_char) > max_width
                      THEN WrapFrom(font, text, max_width, i + n,
                                    Append(flushed, current_char), <<>>)
                      ELSE WrapFrom(font, text, max_width, i + n,
                                    flushed, current_char)

\* wrap_text(c, text, font_name, font_size, max_width)
wrap_text(font, text, max_width) ==
    IF text = <<>> THEN <<>> ELSE WrapFrom(font, text, max_width, 1, <<>>, <<>>)

(***************************************************************************)
(* Page geometry of generate_pdf and draw_message, in millimetres.         *)
(***************************************************************************)
PageHeight == 297       \* A4[1]
margin_top == 30
margin_bottom == 10
PostBreakDrop == 5      \* y = height - margin_top - 5 * mm after the loop's showPage
bubble_padding == 3
line_height == 5
avatar_size == 10
TimestampRow == 5       \* y_pos -= 5 * mm after the timestamp
MessageGap == 8         \* ... - 8 * mm of every return
TextExtra == 12         \* message_height of a text message beyond its bubble
ImageEstimate == 92     \* 80 * mm + 12 * mm
VideoEstimate == 72     \* 60 * mm + 12 * mm
OtherEstimate == 40     \* 30 * mm + 10 * mm
SystemRow == 10         \* a system notice: its room and its advance
FailDrop == 5           \* return y_pos - 5 * mm of the except clause
max_img_height == 80
VideoCaption == 5       \* bubble_height of a video: ... + 5 * mm
emoji_height == 40

PageTop == PageHeight - margin_top

(***************************************************************************)
(* What draw_message reads of a message (its shape) and of the world.      *)
(*   shape  [type, n]: n is the number of lines wrap_text returns for the  *)
(*          text drawn in the bubble (text, voice, file, other), 0 else    *)
(*   env    [fail, media, h]:                                              *)
(*          fail   where an exception is raised: "none", "pre" (before the *)
(*                 pagination check), "mid" (after it, before the cursor   *)
(*                 moves below the timestamp), "body" (after that)         *)
(*          media  "ok", "null" (download_media_file returns None) or      *)
(*                 "undecodable" (the file is there, opening/drawing it    *)
(*                 raises)                                                 *)
(*          h      scaled height of the image or thumbnail, when ok        *)
(***************************************************************************)
TextLines == {1, 24, 49, 50}
LabelLines == {1, 8}
ImgHeights == {20, 80}
MediaTypes == {"image", "video", "emoji"}
LabelTypes == {"voice", "file", "other"}

MsgShapes ==
    {[type |-> "text", n |-> n] : n \in TextLines}
        \cup {[type |-> t, n |-> 0] : t \in MediaTypes \cup {"system"}}
        \cup {[type |-> t, n |-> n] : t \in LabelTypes, n \in LabelLines}

FailPoints == {"none", "pre", "mid", "body"}

\* a failure raised outside the medium's own try block hides what the medium
\* would have been, so the failing draws vary the medium less
Failing == FailPoints \ {"none"}
Envs(shape) ==
    IF shape.type \in {"image", "video"}
    THEN {[fail |-> "none", media |-> "ok", h |-> h] : h \in ImgHeights}
            \cup {[fail |-> "none", media |-> m, h |-> 0] : m \in {"null", "undecodable"}}
            \cup {[fail |-> f, media |-> m, h |-> 0] : f \in Failing, m \in {"ok", "null"}}
    ELSE IF shape.type = "emoji"
    THEN {[fail |-> "none", media |-> m, h |-> 0] : m \in {"ok", "null", "undecodable"}}
            \cup {[fail |-> f, media |-> m, h |-> 0] : f \in Failing, m \in {"ok", "null"}}
    ELSE {[fail |-> f, media |-> "ok", h |-> 0] : f \in FailPoints}

\* bubble_height of a bubble of n text lines
TextBubble(n) == n * line_height + 2 * bubble_padding

\* lines 1540-1583: message_height, the room the pagination check asks for
MessageHeight(shape) ==
    CASE shape.type = "text" -> Max(TextBubble(shape.n), avatar_size) + TextExtra
      [] shape.type = "image" -> ImageEstimate
      [] shape.type \in {"video", "emoji"} -> VideoEstimate
      [] OTHER -> OtherEstimate

\* the placeholder "[...]" of an unresolved medium wraps to one line
PlaceholderLines == 1

\* bubble_height as the branch of the message type computes it
BubbleHeight(shape, env) ==
    CASE shape.type = "image" ->
            IF env.media = "ok" THEN env.h + 4 * bubble_padding
            ELSE TextBubble(PlaceholderLines)
      [] shape.type = "video" ->
            IF env.media = "ok" THEN env.h + 4 * bubble_padding + VideoCaption
            ELSE TextBubble(PlaceholderLines)
      [] shape.type = "emoji" ->
            IF env.media = "ok" THEN emoji_height + 4 * bubble_padding
            ELSE TextBubble(PlaceholderLines)
      [] OTHER -> TextBubble(shape.n)

NeedsBreakBubbleOnly(shape, y_pos) ==
    IF shape.type = "system" THEN y_pos < margin_bottom + SystemRow
    ELSE y_pos - TextBubble(shape.n) < margin_bottom
\* the room the pagination check finds missing (line 1527, line 1585)
NeedsBreak(shape, y_pos) ==
    IF shape.type = "system" THEN y_pos < margin_bottom + SystemRow
    ELSE y_pos - MessageHeight(shape) < margin_bottom

CatchesDrawingOnly(fail) == fail # "pre"
\* the try of line 1509 spans the whole body: except Exception catches a
\* failure wherever it is raised
Catches(fail) == TRUE

\* lines 2006-2010: return y_pos - 5 * mm, y_pos being the local variable
ExceptReturn(y_pos) == y_pos - FailDrop

FailPointNoInnerTry(shape, env) ==
    IF env.fail = "none" /\ shape.type \in MediaTypes /\ env.media = "undecodable"
    THEN "body" ELSE env.fail
\* the inner try/except of the image, video and emoji branches turns a
\* failure to open or draw the medium into the placeholder branch, so the
\* outer except sees only the failures raised elsewhere
FailPoint(shape, env) == env.fail

NoBubble(ret, broke, drawY, inked, fail) ==
    [ret |-> ret, broke |-> broke, drawY |-> drawY, bubble |-> FALSE,
     top |-> 0, bottom |-> 0, placeholder |-> FALSE, raised |-> TRUE,
     escaped |-> ~Catches(fail), inked |-> inked]

\* draw_message(c, msg, users, y_pos, ...): the returned cursor and what was
\* drawn.  broke: c.showPage() was called; drawY: y_pos after the page test.
draw_message(shape, y_pos, env) ==
    LET fail == FailPoint(shape, env)
        broke == NeedsBreak(shape, y_pos)
        y1 == IF broke THEN PageTop ELSE y_pos
        y2 == y1 - TimestampRow
        bh == BubbleHeight(shape, env)
    IN  IF fail = "pre"
        THEN NoBubble(ExceptReturn(y_pos), FALSE, y_pos, FALSE, fail)
        ELSE IF shape.type = "system"
        THEN IF fail # "none"
             THEN NoBubble(ExceptReturn(y1), broke, y1, TRUE, fail)
             ELSE [ret |-> y1 - SystemRow, broke |-> broke, drawY |-> y1,
                   bubble |-> FALSE, top |-> 0, bottom |-> 0, placeholder |-> FALSE,
                   raised |-> FALSE, escaped |-> FALSE, inked |-> TRUE]
        ELSE IF fail = "mid"
        THEN NoBubble(ExceptReturn(y1), broke, y1, TRUE, fail)
        ELSE IF fail = "body"
        THEN NoBubble(ExceptReturn(y2), broke, y1, TRUE, fail)
        ELSE [ret |-> y2 - Max(bh, avatar_size) - MessageGap,
              broke |-> broke, drawY |-> y1,
              bubble |-> TRUE, top |-> y2, bottom |-> y2 - bh,
              placeholder |-> shape.type \in MediaTypes /\ env.media # "ok",
              raised |-> FALSE, escaped |-> FALSE, inked |-> TRUE]

(***************************************************************************)
(* PageTracker and the bookmark list.                                      *)
(***************************************************************************)
\* PageTracker.showPage: self.current_page += 1
showPage(page) == page + 1
\* PageTracker.getPageNumber
getPageNumber(page) == page

TitleBookmark == [title |-> "title", date |-> None, count |-> 0, page |-> 0]
AddBookmarkFront(bms, date, count, page) ==
    <<[title |-> "date", date |-> date, count |-> count, page |-> page]>> \o bms
\* bookmarks.append([f"{date} ({msgs_count})", current_page])
AddBookmark(bms, date, count, page) ==
    Append(bms, [title |-> "date", date |-> date, count |-> count, page |-> page])

NoLast ==
    [shape |-> [type |-> "none", n |-> 0],
     env |-> [fail |-> "none", media |-> "ok", h |-> 0],
     yIn |-> 0, pageIn |-> 0, first |-> FALSE, page |-> 0, postBreak |-> FALSE,
     r |-> [ret |-> 0, broke |-> FALSE, drawY |-> 0, bubble |-> FALSE, top |-> 0,
            bottom |-> 0, placeholder |-> FALSE, raised |-> FALSE,
            escaped |-> FALSE, inked |-> FALSE]]

(***************************************************************************)
(* The steps of generate_pdf up to the saved draft.                        *)
(***************************************************************************)
\* lines 2053-2075: load and validate the transcript
Load ==
    /\ pc = "start"
    /\ LET c == LoadChats(chat_file)
       IN  IF RejectsChats(c)
           THEN /\ pc' = "aborted"
                /\ chats' = <<>>
           ELSE /\ pc' = "loaded"
                /\ chats' = c.msgs
    /\ UNCHANGED <<chat_file, sortPath, dates_dict, sorted_dates>>
    /\ UNCHANGED <<composeVars, attachVars, wrapVars, sideVars>>

\* lines 2094-2118: sort, group by date, return when no message has a date
SortAndGroup ==
    /\ pc = "loaded"
    /\ sortPath' = SortPathOf(chats)
    /\ chats' = SortChats(chats)
    /\ dates_dict' = GroupByDate(chats')
    /\ sorted_dates' = SortedDates(dates_dict')
    /\ pc' = IF DOMAIN dates_dict' = {} THEN "aborted" ELSE "grouped"
    /\ UNCHANGED chat_file
    /\ UNCHANGED <<composeVars, attachVars, wrapVars, sideVars>>

\* lines 2145-2165: the canvas, the title, the title bookmark
CreateCanvas ==
    /\ pc = "grouped"
    /\ canvas' = TRUE
    /\ y' = PageTop
    /\ current_page' = 0
    /\ pageDirty' = TRUE
    /\ bookmarks' = <<TitleBookmark>>
    /\ pc' = "compose"
    /\ UNCHANGED <<date_idx, msg_idx, calls, last, firstPages, pageCount>>
    /\ UNCHANGED <<chat_file, frontVars, attachVars, wrapVars, sideVars>>

GroupDone ==
    IF date_idx = 0 THEN TRUE
    ELSE msg_idx = Len(dates_dict[sorted_dates[date_idx]])

\* lines 2174-2180: the next date and its bookmark
BeginDate ==
    /\ pc = "compose"
    /\ GroupDone
    /\ date_idx < Len(sorted_dates)
    /\ date_idx' = date_idx + 1
    /\ msg_idx' = 0
    /\ LET date == sorted_dates[date_idx + 1]
       IN  bookmarks' = AddBookmark(bookmarks, date, Len(dates_dict[date]),
                                    getPageNumber(current_page))
    /\ UNCHANGED <<canvas, y, current_page, pageDirty, calls, last, firstPages, pageCount>>
    /\ UNCHANGED <<pc, chat_file, frontVars, attachVars, wrapVars, sideVars>>

\* lines 2186-2195: one message of the date: draw_message, then the loop's
\* own check of the returned cursor
DrawStep ==
    /\ pc = "compose"
    /\ date_idx >= 1
    /\ ~GroupDone
    /\ \E shape \in MsgShapes : \E env \in Envs(shape) :
        LET r == draw_message(shape, y, env)
            page == IF r.broke THEN showPage(current_page) ELSE current_page
            post == r.ret < margin_bottom
        IN  IF r.escaped
            THEN /\ pc' = "crashed"
                 /\ UNCHANGED <<y, current_page, pageDirty, msg_idx, firstPages>>
                 /\ calls' = calls + 1
                 /\ last' = [shape |-> shape, env |-> env, yIn |-> y, pageIn |-> current_page,
                             first |-> msg_idx = 0, page |-> page,
                             postBreak |-> FALSE, r |-> r]
            ELSE /\ pc' = pc
                 /\ y' = IF post THEN PageTop - PostBreakDrop ELSE r.ret
                 /\ current_page' = IF post THEN showPage(page) ELSE page
                 /\ pageDirty' = IF post THEN FALSE
                                 ELSE IF r.broke THEN r.inked
                                 ELSE pageDirty \/ r.inked
                 /\ msg_idx' = msg_idx + 1
                 /\ calls' = calls + 1
                 /\ firstPages' = IF msg_idx = 0 THEN Append(firstPages, page)
                                  ELSE firstPages
                 /\ last' = [shape |-> shape, env |-> env, yIn |-> y, pageIn |-> current_page,
                             first |-> msg_idx = 0, page |-> page,
                             postBreak |-> post, r |-> r]
    /\ UNCHANGED <<canvas, bookmarks, date_idx, pageCount>>
    /\ UNCHANGED <<chat_file, frontVars, attachVars, wrapVars, sideVars>>

\* line 2198: c.save(): reportlab ends the open page when it has content
Save ==
    /\ pc = "compose"
    /\ date_idx = Len(sorted_dates)
    /\ GroupDone
    /\ pageCount' = IF pageDirty THEN current_page + 1 ELSE current_page
    /\ current_page' = IF pageDirty THEN showPage(current_page) ELSE current_page
    /\ pageDirty' = FALSE
    /\ finalFile' = "draft"
    /\ reported' = "final"
    /\ pc' = "saved"
    /\ UNCHANGED <<canvas, y, bookmarks, date_idx, msg_idx, calls, last, firstPages>>
    /\ UNCHANGED <<chat_file, frontVars, tempCopy, outTemp, outline, attachFail, wrapVars, sideVars>>

(***************************************************************************)
(* The outline-attach pass of generate_pdf (lines 2202-2324).  A file is   *)
(* "absent", "partial" (opened for writing, not completely written),       *)
(* "draft" (the complete document without outline) or "outlined" (the      *)
(* complete document with it).                                             *)
(***************************************************************************)
Complete(f) == f \in {"draft", "outlined"}

DroppedOnFailure(f) == "absent"
\* lines 2303-2306: a failed replacement removes neither output_temp nor
\* temp_pdf
KeptOnFailure(f) == f

\* lines 2259-2272: one top-level entry per bookmark below the page count
OutlineOfInclusive(bms, pages) ==
    LET kept == SelectSeq(bms, LAMBDA b : b.page <= pages)
    IN  [k \in 1..Len(kept) |->
            [title |-> kept[k].title, date |-> kept[k].date, count |-> kept[k].count,
             page |-> kept[k].page, parent |-> "none"]]
OutlineOf(bms, pages) ==
    LET kept == SelectSeq(bms, LAMBDA b : b.page < pages)
    IN  [k \in 1..Len(kept) |->
            [title |-> kept[k].title, date |-> kept[k].date, count |-> kept[k].count,
             page |-> kept[k].page, parent |-> "none"]]

\* lines 2210-2221: shutil.copy2(output_file, temp_pdf); a failure returns
AttachCopy ==
    /\ pc = "saved"
    /\ \/ /\ tempCopy' = finalFile
          /\ pc' = "copied"
          /\ UNCHANGED attachFail
       \/ /\ tempCopy' \in {"absent", "partial"}
          /\ attachFail' = "copy"
          /\ pc' = "done"
    /\ UNCHANGED <<finalFile, outTemp, outline, reported>>
    /\ UNCHANGED <<chat_file, frontVars, composeVars, wrapVars, sideVars>>

\* lines 2227-2276 and, on failure, 2308-2319: read the copy, add the pages
\* and the outline, write output_temp
AttachRewrite ==
    /\ pc = "copied"
    /\ \/ /\ outTemp' = "outlined"
          /\ outline' = OutlineOf(bookmarks, pageCount)
          /\ pc' = "written"
          /\ UNCHANGED <<attachFail, reported>>
       \/ /\ attachFail' = "reader"
          /\ reported' = "final"
          /\ pc' = "done"
          /\ UNCHANGED <<outTemp, outline>>
       \/ /\ outTemp' = "partial"
          /\ attachFail' = "write"
          /\ reported' = "final"
          /\ pc' = "done"
          /\ UNCHANGED outline
    /\ UNCHANGED <<finalFile, tempCopy>>
    /\ UNCHANGED <<chat_file, frontVars, composeVars, wrapVars, sideVars>>

\* lines 2284-2288: os.remove(output_file); a failure is only reported
AttachRemove ==
    /\ pc = "written"
    /\ \/ finalFile' = "absent"
       \/ finalFile' = finalFile
    /\ pc' = "removed"
    /\ UNCHANGED <<tempCopy, outTemp, outline, attachFail, reported>>
    /\ UNCHANGED <<chat_file, frontVars, composeVars, wrapVars, sideVars>>

\* lines 2291-2292 and, on failure, 2303-2306 and 2317-2319
AttachRename ==
    /\ pc = "removed"
    /\ \/ /\ finalFile' = outTemp
          /\ outTemp' = "absent"
          /\ pc' = "renamed"
          /\ UNCHANGED <<tempCopy, attachFail, reported>>
       \/ /\ attachFail' = "rename"
          /\ reported' = "final"
          /\ pc' = "done"
          /\ outTemp' = KeptOnFailure(outTemp)
          /\ tempCopy' = KeptOnFailure(tempCopy)
          /\ UNCHANGED finalFile
    /\ UNCHANGED outline
    /\ UNCHANGED <<chat_file, frontVars, composeVars, wrapVars, sideVars>>

\* lines 2295-2302: os.remove(temp_pdf); a failure is ignored
AttachCleanup ==
    /\ pc = "renamed"
    /\ \/ tempCopy' = "absent"
       \/ tempCopy' = tempCopy
    /\ pc' = "done"
    /\ UNCHANGED <<finalFile, outTemp, outline, attachFail, reported>>
    /\ UNCHANGED <<chat_file, frontVars, composeVars, wrapVars, sideVars>>

(***************************************************************************)
(* Initial states and specifications.                                      *)
(***************************************************************************)
InitFrontVars ==
    /\ chats = <<>>
    /\ sortPath = "none"
    /\ dates_dict = <<>>
    /\ sorted_dates = <<>>

InitComposeVars ==
    /\ canvas = FALSE
    /\ y = 0
    /\ current_page = 0
    /\ pageDirty = FALSE
    /\ bookmarks = <<>>
    /\ date_idx = 0
    /\ msg_idx = 0
    /\ calls = 0
    /\ last = NoLast
    /\ firstPages = <<>>
    /\ pageCount = 0

InitAttachVars ==
    /\ finalFile = "absent"
    /\ tempCopy = "absent"
    /\ outTemp = "absent"
    /\ outline = <<>>
    /\ attachFail = "none"
    /\ reported = "none"

InitWrapVars ==
    /\ w_font = [plain |-> 1, emoji |-> 1, mod |-> 0]
    /\ w_text = <<>>
    /\ w_max = 0
    /\ w_lines = <<>>

\* __main__ (lines 2457-2489) calls generate_pdf and ends; no sys.exit follows
\* the call, so the status is non-zero only when an exception escapes
ExitStatus == IF pc = "crashed" THEN 1 ELSE 0
NoPath == [type |-> "none", id |-> ""]
NoRef == [src |-> "empty", type |-> "image", msg_id |-> ""]

InitMediaVars ==
    /\ dm_ref = NoRef
    /\ cache_file = "absent"
    /\ dm_calls = <<>>

InitAsrVars ==
    /\ asr_files = <<>>
    /\ asr_model = "unloaded"
    /\ speech_cache = <<>>
    /\ asr_calls = <<>>

InitPoolVars ==
    /\ avatar_heads = <<>>
    /\ avatar_queue = <<>>
    /\ unfinished = 0
    /\ threads = <<>>
    /\ avatar_cache = <<>>
    /\ avatar_files = <<>>
    /\ prepare_pc = "none"
    /\ pool_log = <<>>

NotCached == 0 - 1
NoCall == [env |-> [emoji |-> "ok", primary |-> "ok", helvetica |-> "ok"],
           raised |-> FALSE, width |-> 0, cached |-> FALSE]

InitWidthVars ==
    /\ sw_text = <<>>
    /\ sw_font = [plain |-> 1, emoji |-> 1, mod |-> 0]
    /\ string_width_cache = NotCached
    /\ sw_origin = "none"
    /\ sw_last = NoCall
    /\ sw_n = 0

NoDraw == [env |-> "ok", raised |-> FALSE, ret |-> 0, lines |-> <<>>,
           drawn |-> <<>>, advances |-> <<>>]

InitTextVars ==
    /\ td_text = <<>>
    /\ td_font = [plain |-> 1, emoji |-> 1, mod |-> 0]
    /\ td_max = 0
    /\ td_out = NoDraw

NoDisk == [direct |-> FALSE, byName |-> FALSE, audio |-> {}]

InitPathVars ==
    /\ rp_ref = [type |-> "image", named |-> FALSE]
    /\ rp_disk = NoDisk
    /\ rp_out = "unset"

InitQualityVars ==
    /\ q_arg = 0
    /\ IMAGE_QUALITY = 0
    /\ q_used = <<>>

InitLateVars == InitTextVars /\ InitPathVars /\ InitQualityVars

InitSideVars ==
    InitMediaVars /\ InitAsrVars /\ InitPoolVars /\ InitWidthVars /\ InitLateVars

NoInput == [kind |-> "other", json |-> "nonlist", msgs |-> <<>>]

\* generate_pdf over transcripts with numeric timestamps, up to the saved draft
Init ==
    /\ pc = "start"
    /\ chat_file \in Inputs(IntTimes, MaxMsgs) \cup BadInputs
    /\ InitFrontVars /\ InitComposeVars /\ InitAttachVars /\ InitWrapVars
    /\ InitSideVars

Next == Load \/ SortAndGroup \/ CreateCanvas \/ BeginDate \/ DrawStep \/ Save

Spec == Init /\ [][Next]_vars

\* the front end of generate_pdf over every kind of CreateTime
InitFront ==
    /\ pc = "start"
    /\ chat_file \in Inputs(CreateTimes, MaxFrontMsgs) \cup BadInputs
    /\ InitFrontVars /\ InitComposeVars /\ InitAttachVars /\ InitWrapVars
    /\ InitSideVars

NextFront == Load \/ SortAndGroup \/ CreateCanvas

SpecFront == InitFront /\ [][NextFront]_vars

\* the attach pass over every saved draft: the title bookmark, then date
\* bookmarks with non-decreasing pages, none beyond the last page shown
DateBookmarks(pages) ==
    {bs \in SeqsUpTo(0..pages, MaxBookmarks) :
        \A i \in 1..(Len(bs) - 1) : bs[i] <= bs[i + 1]}
BookmarkList(bs) ==
    <<TitleBookmark>> \o
        [i \in 1..Len(bs) |-> [title |-> "date", date |-> i, count |-> 1, page |-> bs[i]]]

InitAttach ==
    /\ pc = "saved"
    /\ pageCount \in 1..MaxPages
    /\ \E bs \in DateBookmarks(pageCount) : bookmarks = BookmarkList(bs)
    /\ canvas = TRUE
    /\ y = PageTop
    /\ current_page = pageCount
    /\ pageDirty = FALSE
    /\ date_idx = 0
    /\ msg_idx = 0
    /\ calls = 0
    /\ last = NoLast
    /\ firstPages = <<>>
    /\ finalFile = "draft"
    /\ tempCopy = "absent"
    /\ outTemp = "absent"
    /\ outline = <<>>
    /\ attachFail = "none"
    /\ reported = "final"
    /\ chat_file = NoInput
    /\ InitFrontVars /\ InitWrapVars
    /\ InitSideVars

NextAttach == AttachCopy \/ AttachRewrite \/ AttachRemove \/ AttachRename \/ AttachCleanup

SpecAttach == InitAttach /\ [][NextAttach]_vars

\* wrap_text over every text, font and max_width of the bounds
WrapText ==
    /\ pc = "wrap"
    /\ w_lines' = wrap_text(w_font, w_text, w_max)
    /\ pc' = "wrapped"
    /\ UNCHANGED <<w_font, w_text, w_max>>
    /\ UNCHANGED <<chat_file, frontVars, composeVars, attachVars, sideVars>>

InitWrap ==
    /\ pc = "wrap"
    /\ w_font \in Fonts
    /\ w_text \in Texts
    /\ w_max \in 1..MaxWidth
    /\ w_lines = <<>>
    /\ chat_file = NoInput
    /\ InitFrontVars /\ InitComposeVars /\ InitAttachVars
    /\ InitSideVars

NextWrap == WrapText

SpecWrap == InitWrap /\ [][NextWrap]_vars

(***************************************************************************)
(* download_media_file (lines 1428-1505).  A reference is [src, type,      *)
(* msg_id]: src is "empty", "url" (http:// or https://) or "local"; msg_id *)
(* is "" when the message has none.  The cache file of the reference is    *)
(* "absent", "empty" (created, no byte written), "partial" or "full".      *)
(* What the world does to one call is env = [net, disk]:                   *)
(*   net   "error"     urlopen raises                                      *)
(*         "badtype"   the Content-Type is not of the media type           *)
(*         "readfail"  the cache file is opened, response.read() raises    *)
(*         "emptybody" the response has no bytes                           *)
(*         "ok"        the response is written to the cache file           *)
(*   disk  "missing"   get_real_media_path finds no file                   *)
(*         "found"     the file is found and copied                        *)
(*         "copyfail"  the file is found, shutil.copy2 raises and leaves   *)
(*                     nothing;  "copypart": it raises and leaves a part   *)
(***************************************************************************)
MediaKinds == {"image", "video", "voice", "emoji", "file"}
MediaRefs ==
    {[src |-> s, type |-> t, msg_id |-> m] :
        s \in {"empty", "url", "local"}, t \in MediaKinds, m \in {"", "m1"}}
NetOutcomes == {"error", "badtype", "readfail", "emptybody", "ok"}
DiskOutcomes == {"missing", "found", "copyfail", "copypart"}
MediaEnvs == {[net |-> n, disk |-> d] : n \in NetOutcomes, d \in DiskOutcomes}

\* lines 1450-1452: cache_file = MEDIA_CACHE_DIR/<media_type>_<msg_id><ext>
CachePath(ref) ==
    [type |-> ref.type, id |-> IF ref.msg_id = "" THEN "md5" ELSE ref.msg_id]

NeverHit(cache) == FALSE
\* line 1455: os.path.exists(cache_file)
CacheHit(cache) == cache # "absent"

\* lines 1472-1477: only images and videos have their Content-Type checked
TypeChecked(ref) == ref.type \in {"image", "video"}

\* lines 1463-1493: the URL branch: [result, cache, fetched, raised]
FetchUrl(ref, env) ==
    CASE env.net = "error" ->
            [result |-> NoPath, cache |-> "absent", fetched |-> TRUE, raised |-> FALSE]
      [] env.net = "badtype" /\ TypeChecked(ref) ->
            [result |-> NoPath, cache |-> "absent", fetched |-> TRUE, raised |-> FALSE]
      [] env.net = "readfail" ->
            [result |-> NoPath, cache |-> "empty", fetched |-> TRUE, raised |-> FALSE]
      [] env.net = "emptybody" ->
            [result |-> NoPath, cache |-> "empty", fetched |-> TRUE, raised |-> FALSE]
      [] OTHER ->
            [result |-> CachePath(ref), cache |-> "full", fetched |-> TRUE, raised |-> FALSE]

\* lines 1496-1505: the local branch
CopyLocal(ref, env) ==
    CASE env.disk = "found" ->
            [result |-> CachePath(ref), cache |-> "full", fetched |-> FALSE, raised |-> FALSE]
      [] env.disk = "copyfail" ->
            [result |-> NoPath, cache |-> "absent", fetched |-> FALSE, raised |-> TRUE]
      [] env.disk = "copypart" ->
            [result |-> NoPath, cache |-> "partial", fetched |-> FALSE, raised |-> TRUE]
      [] OTHER ->
            [result |-> NoPath, cache |-> "absent", fetched |-> FALSE, raised |-> FALSE]

\* download_media_file(src_path, media_type, msg_id, user_id)
download_media_file(ref, cache, env) ==
    IF ref.src = "empty"
    THEN [result |-> NoPath, cache |-> cache, fetched |-> FALSE, raised |-> FALSE]
    ELSE IF CacheHit(cache)
    THEN [result |-> CachePath(ref), cache |-> cache, fetched |-> FALSE, raised |-> FALSE]
    ELSE IF ref.src = "url" THEN FetchUrl(ref, env)
    ELSE CopyLocal(ref, env)

MaxDownloads == 2   \* download_media_file calls for one reference

\* one call of download_media_file for the reference
DownloadCall ==
    /\ pc = "media"
    /\ Len(dm_calls) < MaxDownloads
    /\ \E env \in MediaEnvs :
        LET r == download_media_file(dm_ref, cache_file, env)
        IN  /\ cache_file' = r.cache
            /\ dm_calls' = Append(dm_calls,
                    [result |-> r.result, fetched |-> r.fetched, raised |-> r.raised,
                     cacheIn |-> cache_file, cacheOut |-> r.cache])
    /\ UNCHANGED <<pc, dm_ref>>
    /\ UNCHANGED <<chat_file, frontVars, composeVars, attachVars, wrapVars, asrVars, poolVars, widthVars, lateVars>>

\* the calls for every reference, the cache file absent or left by an
\* earlier run
InitMedia ==
    /\ pc = "media"
    /\ dm_ref \in MediaRefs
    /\ cache_file \in {"absent", "full"}
    /\ dm_calls = <<>>
    /\ chat_file = NoInput
    /\ InitFrontVars /\ InitComposeVars /\ InitAttachVars /\ InitWrapVars
    /\ InitAsrVars /\ InitPoolVars /\ InitWidthVars /\ InitLateVars

NextMedia == DownloadCall

SpecMedia == InitMedia /\ [][NextMedia]_vars

(***************************************************************************)
(* transcribe_with_funasr (lines 1284-1348) with load_funasr_model and     *)
(* get_file_hash.  asr_files[k] is the content of the audio file of the    *)
(* k-th voice message; the k-th call transcribes it.  A cache key is       *)
(* [kind, n]: the hash of content n, or the hash of the path of file n     *)
(* when the file cannot be read.  What the world does to one call is env:  *)
(*   exists  the audio file exists                                         *)
(*   load    the model loads, when it is not loaded yet                    *)
(*   hash    get_file_hash can read the file                               *)
(*   gen     model.generate: "text" (with env.text), "empty" or "raise"    *)
(*   write   writing the cache file: "ok", "fail" (not created) or         *)
(*           "trunc" (created, nothing written)                            *)
(***************************************************************************)
MaxVoice == 2       \* voice messages of a transcript
MaxAudio == 2       \* distinct audio contents

Transcripts == {"t1", "t2"}
AsrEnvs ==
    [exists : BOOLEAN, load : BOOLEAN, hash : BOOLEAN,
     gen : {"text", "empty", "raise"}, text : Transcripts,
     write : {"ok", "fail", "trunc"}]
SpeechKeys ==
    {[kind |-> "content", n |-> b] : b \in 1..MaxAudio}
        \cup {[kind |-> "path", n |-> k] : k \in 1..MaxVoice}

\* get_file_hash: md5 of the bytes, or of the path when reading fails
SpeechKey(files, k, env) ==
    IF env.hash THEN [kind |-> "content", n |-> files[k]]
    ELSE [kind |-> "path", n |-> k]

NoLookup(cache, key) == FALSE
\* lines 1317-1320: os.path.exists(cache_file)
Cached(cache, key) == cache[key] # "absent"

\* load_funasr_model: the state of the model after the call
LoadModel(model, env) ==
    CASE model = "unloaded" -> IF env.load THEN "loaded" ELSE "unavailable"
      [] OTHER -> model

\* lines 1312-1341: the cache lookup, model.generate, the cache write
Transcribe(files, k, model, cache, env) ==
    LET key == SpeechKey(files, k, env)
    IN  IF Cached(cache, key)
        THEN [text |-> cache[key], invoked |-> FALSE, stored |-> FALSE,
              key |-> key, model |-> model, cache |-> cache]
        ELSE CASE env.gen = "raise" ->
                    [text |-> "E:error", invoked |-> TRUE, stored |-> FALSE,
                     key |-> key, model |-> model, cache |-> cache]
               [] env.gen = "empty" ->
                    [text |-> "E:none", invoked |-> TRUE, stored |-> FALSE,
                     key |-> key, model |-> model, cache |-> cache]
               [] env.write = "ok" ->
                    [text |-> env.text, invoked |-> TRUE, stored |-> TRUE,
                     key |-> key, model |-> model,
                     cache |-> [cache EXCEPT ![key] = env.text]]
               [] env.write = "trunc" ->
                    [text |-> "E:error", invoked |-> TRUE, stored |-> FALSE,
                     key |-> key, model |-> model,
                     cache |-> [cache EXCEPT ![key] = ""]]
               [] OTHER ->
                    [text |-> "E:error", invoked |-> TRUE, stored |-> FALSE,
                     key |-> key, model |-> model, cache |-> cache]

NoKey == [kind |-> "none", n |-> 0]

\* transcribe_with_funasr(audio_path) for the k-th voice message
transcribe_with_funasr(files, k, model, cache, env) ==
    IF ~env.exists
    THEN [text |-> "E:nofile", invoked |-> FALSE, stored |-> FALSE,
          key |-> NoKey, model |-> model, cache |-> cache]
    ELSE IF model = "unavailable"
    THEN [text |-> "E:unavailable", invoked |-> FALSE, stored |-> FALSE,
          key |-> NoKey, model |-> model, cache |-> cache]
    ELSE IF LoadModel(model, env) # "loaded"
    THEN [text |-> "E:load", invoked |-> FALSE, stored |-> FALSE,
          key |-> NoKey, model |-> LoadModel(model, env), cache |-> cache]
    ELSE Transcribe(files, k, LoadModel(model, env), cache, env)

\* the transcription of the next voice message
TranscribeCall ==
    /\ pc = "asr"
    /\ Len(asr_calls) < Len(asr_files)
    /\ \E env \in AsrEnvs :
        LET r == transcribe_with_funasr(asr_files, Len(asr_calls) + 1, asr_model,
                                        speech_cache, env)
        IN  /\ asr_model' = r.model
            /\ speech_cache' = r.cache
            /\ asr_calls' = Append(asr_calls,
                    [text |-> r.text, invoked |-> r.invoked, stored |-> r.stored,
                     key |-> r.key])
    /\ UNCHANGED <<pc, asr_files>>
    /\ UNCHANGED <<chat_file, frontVars, composeVars, attachVars, wrapVars, mediaVars, poolVars, widthVars, lateVars>>

\* every MaxVoice voice messages, the model not loaded yet or not installed,
\* the transcript cache empty
InitAsr ==
    /\ pc = "asr"
    /\ asr_files \in [1..MaxVoice -> 1..MaxAudio]
    /\ asr_model \in {"unloaded", "unavailable"}
    /\ speech_cache = [key \in SpeechKeys |-> "absent"]
    /\ asr_calls = <<>>
    /\ chat_file = NoInput
    /\ InitFrontVars /\ InitComposeVars /\ InitAttachVars /\ InitWrapVars
    /\ InitMediaVars /\ InitPoolVars /\ InitWidthVars /\ InitLateVars

NextAsr == TranscribeCall

SpecAsr == InitAsr /\ [][NextAsr]_vars

(***************************************************************************)
(* prepare_avatars and download_avatars_thread (lines 689-767).            *)
(* avatar_heads[k] is the headImgUrl of user k: 0 when empty, else a URL.  *)
(* A worker thread is [pc, url] with pc                                    *)
(*   "get"    at avatar_queue.get(timeout=1)                               *)
(*   "check"  a URL in hand, before os.path.exists(temp_file)              *)
(*   "fetch"  before urlopen        "write"  temp_file opened for writing  *)
(*   "exited" after break                                                  *)
(* md5 is taken to be free of collisions on the URLs of one run.           *)
(***************************************************************************)
MaxUsers == 3       \* users of the directory
MaxUrls == 2        \* distinct avatar URLs
MaxWorkers == 2     \* max_workers

Urls == 1..MaxUrls
StopSignal == 0
Workers == 1..MaxWorkers
Md5(url) == [md5 |-> url]
AvatarFiles == {Md5(u) : u \in Urls}

\* the users' headImgUrl values.  The order of the users does not matter,
\* nor how many of them have no URL or share one: at most one user has
\* none, and at most two share a URL, the first of the list
HeadLists ==
    {h \in SeqsUpTo(0..MaxUrls, MaxUsers) :
        /\ \A i \in 1..(Len(h) - 1) : h[i] <= h[i + 1]
        /\ Len(h) >= 2 => h[2] # 0
        /\ \A i \in 1..(Len(h) - 1) : h[i] = h[i + 1] => i <= 2 /\ h[i] = 1
        /\ Len(h) >= 3 => ~(h[1] = h[2] /\ h[2] = h[3])}

QueueEveryUrl(heads) == SelectSeq(heads, LAMBDA u : u # 0)
\* lines 742, 748-749: avatar_urls is a set; each of its URLs is put once
QueuedUrls(heads) == AscendingSeq({heads[i] : i \in 1..Len(heads)} \ {0})

NotDoneAfterFailure(n) == n
\* lines 724-726: except Exception: avatar_queue.task_done()
DoneAfterFailure(n) == n - 1

\* Queue.task_done on the normal paths (lines 709, 720)
task_done(n) == n - 1

NoLog ==
    [taken |-> [u \in Urls |-> 0],
     done |-> [u \in Urls |-> 0],
     fileWrites |-> [f \in AvatarFiles |-> 0],
     keyWrites |-> [u \in Urls |-> 0]]

\* lines 739-757: collect the URLs, fill the queue, start the threads
PrepareStart ==
    /\ prepare_pc = "call"
    /\ LET q == QueuedUrls(avatar_heads)
       IN  IF q = <<>>
           THEN /\ prepare_pc' = "returned"
                /\ UNCHANGED <<avatar_queue, unfinished, threads>>
           ELSE /\ avatar_queue' = q
                /\ unfinished' = Len(q)
                /\ threads' = [w \in 1..Min(MaxWorkers, Len(q)) |->
                                    [pc |-> "get", url |-> 0]]
                /\ prepare_pc' = "join"
    /\ UNCHANGED <<avatar_heads, avatar_cache, avatar_files, pool_log>>
    /\ UNCHANGED <<pc, chat_file, frontVars, composeVars, attachVars, wrapVars,
                   mediaVars, asrVars, widthVars, lateVars>>

\* lines 759-762: avatar_queue.join(), then one stop signal per thread
PrepareJoin ==
    /\ prepare_pc = "join"
    /\ unfinished = 0
    /\ avatar_queue' = avatar_queue \o [w \in 1..Len(threads) |-> StopSignal]
    /\ unfinished' = unfinished + Len(threads)
    /\ prepare_pc' = "stop"
    /\ UNCHANGED <<avatar_heads, threads, avatar_cache, avatar_files, pool_log>>
    /\ UNCHANGED <<pc, chat_file, frontVars, composeVars, attachVars, wrapVars,
                   mediaVars, asrVars, widthVars, lateVars>>

\* lines 764-767: t.join(timeout=0.5) waits for no thread longer than that
PrepareReturn ==
    /\ prepare_pc = "stop"
    /\ prepare_pc' = "returned"
    /\ UNCHANGED <<avatar_heads, avatar_queue, unfinished, threads, avatar_cache,
                   avatar_files, pool_log>>
    /\ UNCHANGED <<pc, chat_file, frontVars, composeVars, attachVars, wrapVars,
                   mediaVars, asrVars, widthVars, lateVars>>

\* lines 699-702, 721-723: take the next item, or leave on Empty or on the
\* stop signal
WorkerGet(w) ==
    /\ threads[w].pc = "get"
    /\ IF avatar_queue = <<>>
       THEN /\ threads' = [threads EXCEPT ![w] = [pc |-> "exited", url |-> 0]]
            /\ UNCHANGED <<avatar_queue, pool_log>>
       ELSE /\ avatar_queue' = Tail(avatar_queue)
            /\ IF Head(avatar_queue) = StopSignal
               THEN /\ threads' = [threads EXCEPT ![w] = [pc |-> "exited", url |-> 0]]
                    /\ UNCHANGED pool_log
               ELSE /\ threads' = [threads EXCEPT
                                      ![w] = [pc |-> "check", url |-> Head(avatar_queue)]]
                    /\ pool_log' = [pool_log EXCEPT
                                      !.taken[Head(avatar_queue)] = @ + 1]
    /\ UNCHANGED <<avatar_heads, unfinished, avatar_cache, avatar_files, prepare_pc>>

\* ImageReader(temp_file) and avatar_cache[url] = ..., then task_done; ok
\* tells whether ImageReader returned
CacheImage(w, ok) ==
    LET url == threads[w].url
    IN  /\ avatar_cache' = IF ok THEN [avatar_cache EXCEPT ![url] = "image"]
                           ELSE avatar_cache
        /\ unfinished' = IF ok THEN task_done(unfinished)
                         ELSE DoneAfterFailure(unfinished)
        /\ pool_log' = [pool_log EXCEPT
                          !.done[url] = @ + 1,
                          !.keyWrites[url] = IF ok THEN @ + 1 ELSE @]
        /\ threads' = [threads EXCEPT ![w] = [pc |-> "get", url |-> 0]]

\* lines 704-710: the file of an earlier download is used
WorkerCheck(w) ==
    /\ threads[w].pc = "check"
    /\ IF avatar_files[Md5(threads[w].url)] # "absent"
       THEN \E ok \in BOOLEAN : CacheImage(w, ok)
       ELSE /\ threads' = [threads EXCEPT ![w].pc = "fetch"]
            /\ UNCHANGED <<avatar_cache, unfinished, pool_log>>
    /\ UNCHANGED <<avatar_heads, avatar_queue, avatar_files, prepare_pc>>

\* the except clause after a failed step of the download
WorkerFails(w) ==
    /\ unfinished' = DoneAfterFailure(unfinished)
    /\ pool_log' = [pool_log EXCEPT !.done[threads[w].url] = @ + 1]
    /\ threads' = [threads EXCEPT ![w] = [pc |-> "get", url |-> 0]]

\* lines 715-717: urlopen, then open(temp_file, 'wb')
WorkerFetch(w) ==
    /\ threads[w].pc = "fetch"
    /\ \/ /\ WorkerFails(w)
          /\ UNCHANGED avatar_files
       \/ /\ avatar_files' = [avatar_files EXCEPT ![Md5(threads[w].url)] = "partial"]
          /\ pool_log' = [pool_log EXCEPT
                            !.fileWrites[Md5(threads[w].url)] = @ + 1]
          /\ threads' = [threads EXCEPT ![w].pc = "write"]
          /\ UNCHANGED unfinished
    /\ UNCHANGED <<avatar_heads, avatar_queue, avatar_cache, prepare_pc>>

\* lines 718-720: f.write(response.read()), the file is closed, then
\* avatar_cache[url] = ImageReader(temp_file) and task_done
WorkerWrite(w) ==
    /\ threads[w].pc = "write"
    /\ \/ /\ WorkerFails(w)
          /\ UNCHANGED <<avatar_files, avatar_cache>>
       \/ /\ avatar_files' = [avatar_files EXCEPT ![Md5(threads[w].url)] = "full"]
          /\ \E ok \in BOOLEAN : CacheImage(w, ok)
    /\ UNCHANGED <<avatar_heads, avatar_queue, prepare_pc>>

\* download_avatars_thread: one step of worker w
WorkerStep(w) ==
    /\ prepare_pc \in {"join", "stop", "returned"}
    /\ w \in DOMAIN threads
    /\ \/ WorkerGet(w) \/ WorkerCheck(w) \/ WorkerFetch(w) \/ WorkerWrite(w)
    /\ UNCHANGED <<pc, chat_file, frontVars, composeVars, attachVars, wrapVars,
                   mediaVars, asrVars, widthVars, lateVars>>

Worker == \E w \in Workers : WorkerStep(w)

\* the avatar files left in the temporary directory by earlier runs: which
\* URLs they belong to does not matter, so they are those of the first k
LeftFiles == {[f \in AvatarFiles |-> IF f.md5 <= k THEN "full" ELSE "absent"] :
                 k \in 0..MaxUrls}

\* every user directory, with avatar files left by earlier runs
InitPool ==
    /\ pc = "avatars"
    /\ prepare_pc = "call"
    /\ avatar_heads \in HeadLists
    /\ avatar_files \in LeftFiles
    /\ avatar_cache = [u \in Urls |-> "absent"]
    /\ avatar_queue = <<>>
    /\ unfinished = 0
    /\ threads = <<>>
    /\ pool_log = NoLog
    /\ chat_file = NoInput
    /\ InitFrontVars /\ InitComposeVars /\ InitAttachVars /\ InitWrapVars
    /\ InitMediaVars /\ InitAsrVars /\ InitWidthVars /\ InitLateVars

NextPool == PrepareStart \/ PrepareJoin \/ PrepareReturn \/ Worker

\* the threads are scheduled and every blocking call has a timeout
SpecPool ==
    /\ InitPool /\ [][NextPool]_vars
    /\ WF_vars(PrepareStart) /\ WF_vars(PrepareJoin) /\ WF_vars(PrepareReturn)
    /\ \A w \in Workers : WF_vars(WorkerStep(w))

(***************************************************************************)
(* get_string_width with fonts that can fail (lines 781-882).  Each of the *)
(* three fonts is                                                          *)
(*   "ok"         setFont and stringWidth succeed                          *)
(*   "nomeasure"  setFont succeeds, stringWidth raises                     *)
(*   "unknown"    the font is not registered: both raise                   *)
(* Every call site passes font_size 10, so a glyph of width g measures     *)
(* 10 * g and the estimate len * font_size * 0.6 is 6 * len.               *)
(***************************************************************************)
MaxWidthLen == 2     \* length of the text measured
MaxWidthCalls == 2   \* calls of get_string_width on one text
font_size == 10

FontStates == {"ok", "nomeasure", "unknown"}
\* EmojiFont is only ever measured with, so its two failing states are one
WidthEnvs == [emoji : {"ok", "unknown"}, primary : FontStates, helvetica : FontStates]
WidthTexts == SeqsUpTo(CodeClasses, MaxWidthLen)

\* c.setFont(name, font_size) returns
CanSet(st) == st # "unknown"
\* c.setFont(name, font_size) and c.stringWidth(s, name, font_size) return
CanMeasure(st) == st = "ok"

\* the width Helvetica gives any character of the model
HelveticaWidth(ch) == 3 * font_size
\* c.stringWidth(text, "Helvetica", font_size)
HelveticaString(text) == Len(text) * 3 * font_size
\* c.stringWidth(text, font_name, font_size) on the whole string
WholeString(font, text) == font_size * SumWidths(font, text, FALSE)
\* line 872
Estimate(text) == (Len(text) * font_size * 6) \div 10

ContainsEmojiOrModifier(text) ==
    \E i \in 1..Len(text) : IsEmojiStart(text[i]) \/ IsModifier(text[i])
\* lines 800-812
contains_emoji(text) == \E i \in 1..Len(text) : IsEmojiStart(text[i])

\* lines 826-857: the width of one character on the emoji path
CharWidth(font, ch, env) ==
    IF IsModifier(ch) THEN [raised |-> FALSE, width |-> 0]
    ELSE IF IsEmojiStart(ch) /\ CanMeasure(env.emoji)
    THEN [raised |-> FALSE, width |-> font_size * font.emoji]
    ELSE IF CanMeasure(env.primary)
    THEN [raised |-> FALSE, width |-> font_size * DirectWidth(font, ch)]
    ELSE IF CanMeasure(env.helvetica)
    THEN [raised |-> FALSE, width |-> HelveticaWidth(ch)]
    ELSE [raised |-> TRUE, width |-> 0]

\* lines 816-859: the loop over the characters; an exception ends it
RECURSIVE EmojiPath(_, _, _)
EmojiPath(font, text, env) ==
    IF text = <<>> THEN [raised |-> FALSE, width |-> 0]
    ELSE LET first == CharWidth(font, Head(text), env)
             rest == EmojiPath(font, Tail(text), env)
         IN  IF first.raised \/ rest.raised THEN [raised |-> TRUE, width |-> 0]
             ELSE [raised |-> FALSE, width |-> first.width + rest.width]

\* lines 860-872: the whole string, then Helvetica, then the estimate
DirectPath(font, text, env) ==
    IF CanMeasure(env.primary)
    THEN [raised |-> FALSE, width |-> WholeString(font, text), how |-> "direct"]
    ELSE IF CanMeasure(env.helvetica)
    THEN [raised |-> FALSE, width |-> HelveticaString(text), how |-> "helvetica"]
    ELSE [raised |-> FALSE, width |-> Estimate(text), how |-> "estimate"]

\* lines 874-878: c.setFont(font_name), or else c.setFont("Helvetica")
RestoreRaises(env) == ~CanSet(env.primary) /\ ~CanSet(env.helvetica)

\* get_string_width(c, text, font_name, font_size) with the cache cell of
\* its key: [raised, width, cached, cache, origin]
StringWidthCall(font, text, env, cache, origin) ==
    IF cache # NotCached
    THEN [raised |-> FALSE, width |-> cache, cached |-> TRUE,
          cache |-> cache, origin |-> origin]
    ELSE LET m == IF contains_emoji(text)
                  THEN EmojiPath(font, text, env) @@ [how |-> "emoji"]
                  ELSE DirectPath(font, text, env)
         IN  IF m.raised \/ RestoreRaises(env)
             THEN [raised |-> TRUE, width |-> 0, cached |-> FALSE,
                   cache |-> cache, origin |-> origin]
             ELSE [raised |-> FALSE, width |-> m.width, cached |-> FALSE,
                   cache |-> m.width, origin |-> m.how]

\* one call of get_string_width on the text, the fonts in any state
WidthCall ==
    /\ pc = "width"
    /\ sw_n < MaxWidthCalls
    /\ \E env \in WidthEnvs :
          LET r == StringWidthCall(sw_font, sw_text, env, string_width_cache, sw_origin)
          IN  /\ string_width_cache' = r.cache
              /\ sw_origin' = r.origin
              /\ sw_last' = [env |-> env, raised |-> r.raised, width |-> r.width,
                             cached |-> r.cached]
    /\ sw_n' = sw_n + 1
    /\ UNCHANGED <<sw_text, sw_font>>
    /\ UNCHANGED <<pc, chat_file, frontVars, composeVars, attachVars, wrapVars,
                   mediaVars, asrVars, poolVars, lateVars>>

InitWidth ==
    /\ pc = "width"
    /\ sw_text \in WidthTexts
    /\ sw_font \in Fonts
    /\ string_width_cache = NotCached
    /\ sw_origin = "none"
    /\ sw_last = NoCall
    /\ sw_n = 0
    /\ chat_file = NoInput
    /\ InitFrontVars /\ InitComposeVars /\ InitAttachVars /\ InitWrapVars
    /\ InitMediaVars /\ InitAsrVars /\ InitPoolVars /\ InitLateVars

NextWidth == WidthCall

SpecWidth == InitWidth /\ [][NextWidth]_vars

(***************************************************************************)
(* The text branch of draw_message (lines 1624-1743): the bubble of a text *)
(* message drawn character by character.  SimSun is registered; EmojiFont  *)
(* is "ok", "nomeasure" (stringWidth raises) or "unknown" (setFont         *)
(* raises).  Widths are in points: a glyph of width g measures 10 * g in   *)
(* SimSun at size 10 and 12 * g in EmojiFont at size 12.                   *)
(***************************************************************************)
MaxDrawLen == 3       \* length of the text of the message
emoji_font_size == 12

DrawTexts == SeqsUpTo(CodeClasses, MaxDrawLen)
EmojiFontStates == {"ok", "nomeasure", "unknown"}
\* "[空消息]", the line drawn for an empty text
EmptyPlaceholder == <<"P", "P", "P", "P", "P">>

\* lines 836-843: get_string_width measures an emoji with SimSun when
\* EmojiFont fails
MeasuringFont(font, env) ==
    IF env = "ok" THEN font ELSE [font EXCEPT !.emoji = font.mod]

\* lines 1680-1690: the scan after a joiner
RECURSIVE JoinScan(_, _)
JoinScan(line, k) ==
    IF k <= Len(line) /\ line[k] \in {"E", "SK", "ZWJ", "VS"}
    THEN JoinScan(line, k + 1) ELSE k

\* lines 1666-1690: emoji_width, the characters drawn together with line[j]
emoji_width(line, j) ==
    LET selector == IF j < Len(line) /\ line[j + 1] = "VS" THEN 1 ELSE 0
        skin == IF j < Len(line) /\ line[j + 1] = "SK" THEN 1 ELSE selector
    IN  IF j <= Len(line) - 2 /\ line[j + 1] = "ZWJ"
        THEN skin + (JoinScan(line, j + 2) - (j + 2))
        ELSE skin

\* lines 1700-1728: the advance after an emoji; emoji_char_width is assigned
\* only after c.setFont("EmojiFont", ...) has returned
EmojiAdvance(font, emoji_text, env) ==
    Max(IF env = "ok" THEN emoji_font_size * SumWidths(font, emoji_text, TRUE)
        ELSE emoji_font_size,
        emoji_font_size)

\* lines 1645-1741: the characters of one line from index j on:
\* [raised, advance, drawn]
RECURSIVE DrawFrom(_, _, _, _)
DrawFrom(font, line, env, j) ==
    IF j > Len(line) THEN [raised |-> FALSE, advance |-> 0, drawn |-> <<>>]
    ELSE IF IsEmojiStart(line[j])
    THEN LET n == emoji_width(line, j)
             emoji_text == SubSeq(line, j, Min(j + n, Len(line)))
             rest == DrawFrom(font, line, env, j + n + 1)
         IN  IF env = "unknown"
             THEN \* drawn with SimSun, then line 1728 reads emoji_char_width
                  [raised |-> TRUE, advance |-> 0, drawn |-> emoji_text]
             ELSE [raised |-> rest.raised,
                   advance |-> EmojiAdvance(font, emoji_text, env) + rest.advance,
                   drawn |-> emoji_text \o rest.drawn]
    ELSE LET rest == DrawFrom(font, line, env, j + 1)
         IN  [raised |-> rest.raised,
              advance |-> font_size * DirectWidth(font, line[j]) + rest.advance,
              drawn |-> <<line[j]>> \o rest.drawn]

\* lines 1625, 1639-1743 and 2006-2010: the bubble of a text message with the
\* cursor below the timestamp at y_pos
DrawTextMessage(font, text, max_width, env, y_pos) ==
    LET wrapped == wrap_text(MeasuringFont(font, env), text, max_width)
        text_lines == IF wrapped = <<>> THEN <<EmptyPlaceholder>> ELSE wrapped
        each == [i \in 1..Len(text_lines) |-> DrawFrom(font, text_lines[i], env, 1)]
        reached(i) == \A k \in 1..(i - 1) : ~each[k].raised
        raised == \E i \in 1..Len(text_lines) : each[i].raised
    IN  [env |-> env,
         raised |-> raised,
         ret |-> IF raised THEN ExceptReturn(y_pos)
                 ELSE y_pos - Max(TextBubble(Len(text_lines)), avatar_size) - MessageGap,
         lines |-> text_lines,
         drawn |-> [i \in 1..Len(text_lines) |->
                        IF reached(i) THEN each[i].drawn ELSE <<>>],
         advances |-> [i \in 1..Len(text_lines) |->
                        IF reached(i) THEN each[i].advance ELSE 0]]

\* a text message drawn at the top of a page, EmojiFont in any state
DrawTextBubble ==
    /\ pc = "text"
    /\ \E env \in EmojiFontStates :
          td_out' = DrawTextMessage(td_font, td_text, td_max, env,
                                    PageTop - TimestampRow)
    /\ pc' = "textdone"
    /\ UNCHANGED <<td_text, td_font, td_max>>
    /\ UNCHANGED <<chat_file, frontVars, composeVars, attachVars, wrapVars,
                   mediaVars, asrVars, poolVars, widthVars, pathVars,
                   qualityVars>>

InitText ==
    /\ pc = "text"
    /\ td_text \in DrawTexts
    /\ td_font \in Fonts
    /\ td_max \in 1..MaxWidth
    /\ td_out = NoDraw
    /\ chat_file = NoInput
    /\ InitFrontVars /\ InitComposeVars /\ InitAttachVars /\ InitWrapVars
    /\ InitMediaVars /\ InitAsrVars /\ InitPoolVars /\ InitWidthVars
    /\ InitPathVars /\ InitQualityVars

NextText == DrawTextBubble

SpecText == InitText /\ [][NextText]_vars

(***************************************************************************)
(* get_real_media_path for a local reference (lines 977-1164).             *)
(*   ref   [type, named]: named tells whether os.path.basename(src_path)   *)
(*         is not empty                                                    *)
(*   disk  [direct, byName, audio]:                                        *)
(*         direct  one of the candidate paths built from the reference     *)
(*                 exists                                                  *)
(*         byName  a file whose name contains the filename lies somewhere  *)
(*                 else in the working tree                                *)
(*         audio   the extensions of the other audio files of the tree     *)
(* The result is "none", "direct", "byName" or the extension of an audio   *)
(* file that has nothing of the filename in its name.                      *)
(***************************************************************************)
PathTypes == {"image", "video", "voice", "file"}
AudioExts == {"amr", "mp3", "silk", "wav"}
PathRefs == [type : PathTypes, named : BOOLEAN]
Disks == [direct : BOOLEAN, byName : BOOLEAN, audio : SUBSET AudioExts]

\* lines 1124-1127: "**/*.amr", "**/*.mp3", "**/*.silk", "**/*.wav"
VoiceWildcards == <<"amr", "mp3", "silk", "wav">>
\* lines 1153-1154: "**/*.amr", "**/*.silk"
LastWildcards == <<"amr", "silk">>

\* the files glob.glob returns for the wildcard patterns, in their order
WildcardMatches(exts, disk) == SelectSeq(exts, LAMBDA e : e \in disk.audio)

\* lines 1092-1131: the glob patterns of the media type, when no candidate
\* path exists
GlobMatches(ref, disk) ==
    IF ref.type = "file" THEN <<>>
    ELSE (IF disk.byName THEN <<"byName">> ELSE <<>>)
         \o (IF ref.type = "voice" THEN WildcardMatches(VoiceWildcards, disk)
             ELSE <<>>)

\* lines 1140-1160: the last attempt for a voice file
LastAttempt(ref, disk) ==
    IF ref.type # "voice" THEN <<>>
    ELSE (IF disk.byName THEN <<"byName">> ELSE <<>>)
         \o WildcardMatches(LastWildcards, disk)

\* get_real_media_path(src_path, media_type, user_id)
get_real_media_path(ref, disk) ==
    IF disk.direct THEN "direct"
    ELSE IF ~ref.named THEN "none"
    ELSE IF GlobMatches(ref, disk) # <<>> THEN Head(GlobMatches(ref, disk))
    ELSE IF LastAttempt(ref, disk) # <<>> THEN Head(LastAttempt(ref, disk))
    ELSE "none"

\* one call of get_real_media_path
ResolvePath ==
    /\ pc = "path"
    /\ rp_out' = get_real_media_path(rp_ref, rp_disk)
    /\ pc' = "pathdone"
    /\ UNCHANGED <<rp_ref, rp_disk>>
    /\ UNCHANGED <<chat_file, frontVars, composeVars, attachVars, wrapVars,
                   mediaVars, asrVars, poolVars, widthVars, textVars,
                   qualityVars>>

InitPath ==
    /\ pc = "path"
    /\ rp_ref \in PathRefs
    /\ rp_disk \in Disks
    /\ rp_out = "unset"
    /\ chat_file = NoInput
    /\ InitFrontVars /\ InitComposeVars /\ InitAttachVars /\ InitWrapVars
    /\ InitMediaVars /\ InitAsrVars /\ InitPoolVars /\ InitWidthVars
    /\ InitTextVars /\ InitQualityVars

NextPath == ResolvePath

SpecPath == InitPath /\ [][NextPath]_vars

(***************************************************************************)
(* The image quality of generate_pdf and compress_image (lines 172,        *)
(* 2013-2030, 2347-2400).                                                  *)
(***************************************************************************)
MaxCompress == 2        \* JPEG files saved by compress_image in one run
MaxQuality == 100       \* 1 <= image_quality <= 100
DefaultQuality == 60    \* IMAGE_QUALITY = 60

\* the image_quality values a caller can pass, one below and one above the
\* range included
Qualities == 0..(MaxQuality + 1)

\* line 2347: the default of the parameter quality is the value IMAGE_QUALITY
\* has when the def statement runs, at import
QualityDefault == DefaultQuality

\* lines 1750, 1841, 1908: compress_image(path) is called without quality
quality_of_call(global) == QualityDefault

\* lines 2026-2030: the head of generate_pdf
SetQuality ==
    /\ pc = "quality"
    /\ IMAGE_QUALITY' = IF q_arg # IMAGE_QUALITY /\ 1 <= q_arg /\ q_arg <= MaxQuality
                        THEN q_arg ELSE IMAGE_QUALITY
    /\ pc' = "images"
    /\ UNCHANGED <<q_arg, q_used>>
    /\ UNCHANGED <<chat_file, frontVars, composeVars, attachVars, wrapVars,
                   mediaVars, asrVars, poolVars, widthVars, textVars, pathVars>>

\* line 2392: img.save(output_path, format='JPEG', quality=quality, ...)
CompressImage ==
    /\ pc = "images"
    /\ Len(q_used) < MaxCompress
    /\ q_used' = Append(q_used, quality_of_call(IMAGE_QUALITY))
    /\ UNCHANGED <<pc, q_arg, IMAGE_QUALITY>>
    /\ UNCHANGED <<chat_file, frontVars, composeVars, attachVars, wrapVars,
                   mediaVars, asrVars, poolVars, widthVars, textVars, pathVars>>

InitQuality ==
    /\ pc = "quality"
    /\ q_arg \in Qualities
    /\ IMAGE_QUALITY = DefaultQuality
    /\ q_used = <<>>
    /\ chat_file = NoInput
    /\ InitFrontVars /\ InitComposeVars /\ InitAttachVars /\ InitWrapVars
    /\ InitMediaVars /\ InitAsrVars /\ InitPoolVars /\ InitWidthVars
    /\ InitTextVars /\ InitPathVars

NextQuality == SetQuality \/ CompressImage

SpecQuality == InitQuality /\ [][NextQuality]_vars

(***************************************************************************)
(* Emoji clusters, as the data model defines them: one emoji-start         *)
(* codepoint, then variant selectors and skin-tone modifiers, extended     *)
(* through a joiner by further emoji-start codepoints and their modifiers. *)
(* Joined(text, p): codepoint p belongs to the cluster of codepoint p - 1. *)
(***************************************************************************)
RECURSIVE Joined(_, _)
RECURSIVE JoinerSeen(_, _)
InCluster(text, p) == IsEmojiStart(text[p]) \/ Joined(text, p)
Joined(text, p) ==
    IF p = 1 \/ text[p] = "P" THEN FALSE
    ELSE IF ~InCluster(text, p - 1) THEN FALSE
    ELSE IF text[p] \in {"VS", "SK", "ZWJ"} THEN TRUE
    ELSE JoinerSeen(text, p - 1)
JoinerSeen(text, p) ==
    IF ~Joined(text, p) THEN FALSE
    ELSE IF text[p] = "ZWJ" THEN TRUE
    ELSE JoinerSeen(text, p - 1)

ClusterStart(text, p) == IsEmojiStart(text[p]) /\ ~Joined(text, p)
\* the last codepoint of the cluster that starts at s
ClusterEnd(text, s) ==
    CHOOSE e \in s..Len(text) :
        /\ \A q \in (s + 1)..e : Joined(text, q)
        /\ (e = Len(text) \/ ~Joined(text, e + 1))

\* the line of w_lines that holds codepoint p of the text, and where it starts
RECURSIVE LinesLen(_, _)
LinesLen(lines, k) == IF k = 0 THEN 0 ELSE Len(lines[k]) + LinesLen(lines, k - 1)
LineOf(lines, p) == CHOOSE k \in 1..Len(lines) : LinesLen(lines, k - 1) < p /\ p <= LinesLen(lines, k)

\* C3: wrap_text never puts the codepoints of one emoji cluster on two lines,
\* and a cluster wider than max_width is the only content of its line.
C3_ClusterNeverSplit ==
    pc = "wrapped" =>
        /\ LinesLen(w_lines, Len(w_lines)) = Len(w_text)
        /\ \A p \in 2..Len(w_text) :
              Joined(w_text, p) => LineOf(w_lines, p) = LineOf(w_lines, p - 1)
        /\ \A s \in 1..Len(w_text) :
              LET e == ClusterEnd(w_text, s)
                  cluster == SubSeq(w_text, s, e)
              IN  (ClusterStart(w_text, s)
                      /\ get_string_width(w_font, cluster) > w_max)
                  => /\ w_lines[LineOf(w_lines, s)] = cluster
                     /\ LinesLen(w_lines, LineOf(w_lines, s) - 1) = s - 1

\* a joiner-chained cluster met a line that was full, and a cluster wider than
\* max_width was wrapped amid other text
C3_Witness ==
    /\ pc = "wrapped"
    /\ Len(w_lines) >= 2
    /\ \E p \in 3..Len(w_text) :
          /\ w_text[p] = "E" /\ w_text[p - 1] = "ZWJ" /\ Joined(w_text, p)
          /\ LineOf(w_lines, p) > 1
    /\ \E s \in 1..Len(w_text) :
          /\ ClusterStart(w_text, s)
          /\ get_string_width(w_font, SubSeq(w_text, s, ClusterEnd(w_text, s))) > w_max


(***************************************************************************)
(* Claims about the composition loop.                                      *)
(***************************************************************************)
Composing == pc \in {"compose", "saved"} /\ last.shape.type # "none"

\* a bubble of n lines fits on one page: below the timestamp row of a fresh
\* page it ends at or above the bottom margin
FitsOnPage(shape) ==
    TimestampRow + TextBubble(shape.n) <= PageTop - margin_bottom

\* C1: for text messages whose bubble fits on one page, a page break happens
\* only when the cursor minus the message's required height is below the
\* bottom margin (inside draw_message) or the returned cursor is below it (in
\* the loop), and the bubble lies between the top and the bottom margin of
\* the page it is drawn on.
C1_TextPagination ==
    (Composing /\ last.shape.type = "text" /\ FitsOnPage(last.shape)) =>
        /\ last.r.broke =>
              last.yIn - MessageHeight(last.shape) < margin_bottom
        /\ last.postBreak => last.r.ret < margin_bottom
        /\ last.page = last.pageIn + (IF last.r.broke THEN 1 ELSE 0)
        /\ pc = "compose" =>
              current_page = last.page + (IF last.postBreak THEN 1 ELSE 0)
        /\ last.r.bubble =>
              /\ last.r.bottom >= margin_bottom
              /\ last.r.top <= PageTop

\* on a later page, a text bubble drawn after draw_message broke the page
\* and followed by the loop's own break
C1_Witness ==
    /\ Composing
    /\ last.shape.type = "text"
    /\ FitsOnPage(last.shape)
    /\ last.r.bubble
    /\ last.r.broke
    /\ last.postBreak
    /\ last.pageIn >= 1

\* C2: the title bookmark is recorded with page 0 and the pages recorded for
\* consecutive dates never decrease.
C2_BookmarkOrder ==
    bookmarks # <<>> =>
        /\ bookmarks[1].title = "title"
        /\ bookmarks[1].page = 0
        /\ \A i \in 2..Len(bookmarks) : bookmarks[i].title = "date"
        /\ \A i \in 1..(Len(bookmarks) - 1) :
              bookmarks[i].page <= bookmarks[i + 1].page

\* two dates were bookmarked on different pages
C2_Witness ==
    /\ Len(bookmarks) = 3
    /\ bookmarks[2].page < bookmarks[3].page
    /\ pc = "saved"

\* the local y_pos of draw_message at the point the failure is raised
CursorAtFailure(l) ==
    CASE l.env.fail = "pre" -> l.yIn
      [] l.env.fail = "body" /\ l.shape.type # "system" -> l.r.drawY - TimestampRow
      [] OTHER -> l.r.drawY

GroupedCount == Cardinality({i \in 1..Len(chats) : Grouped(chats[i])})

\* C4, as stated: whatever fails, the returned cursor is the cursor
\* draw_message was given, lowered by 5 mm.
C4_FixedDecrement ==
    (Composing /\ last.r.raised) => last.r.ret = last.yIn - FailDrop

\* C4, amended: no exception escapes draw_message; the returned cursor is the
\* local cursor at the point of failure lowered by 5 mm (the given cursor, or
\* the top of the new page after a page break, less the timestamp row once
\* it has been drawn); every message of the transcript is passed to
\* draw_message.
C4_FailureAbsorbed ==
    /\ pc # "crashed"
    /\ (Composing /\ last.r.raised) =>
          /\ ~last.r.escaped
          /\ last.r.ret = CursorAtFailure(last) - FailDrop
          /\ last.r.drawY = (IF last.r.broke THEN PageTop ELSE last.yIn)
    /\ pc = "saved" => calls = GroupedCount

\* a failure after a page break and the timestamp row, followed by the draw
\* of a later message
C4_Witness ==
    /\ pc = "saved"
    /\ calls = 2
    /\ last.r.raised
    /\ last.env.fail = "body"
    /\ last.r.broke
    /\ last.r.ret # last.yIn - FailDrop

\* C5: an image, video or animated emoji whose medium is unresolved or cannot
\* be decoded gets the one-line placeholder bubble and the normal advance
\* from the cursor below the timestamp row; no exception escapes.
C5_MediaPlaceholder ==
    (Composing /\ last.shape.type \in MediaTypes /\ last.env.media # "ok") =>
        /\ ~last.r.escaped
        /\ pc # "crashed"
        /\ last.env.fail = "none" =>
              /\ ~last.r.raised
              /\ last.r.placeholder
              /\ last.r.bubble
              /\ last.r.top = last.r.drawY - TimestampRow
              /\ last.r.top - last.r.bottom = TextBubble(PlaceholderLines)
              /\ last.r.ret = last.r.top
                    - Max(TextBubble(PlaceholderLines), avatar_size) - MessageGap

\* the second message drawn was a video whose file could not be decoded,
\* drawn as a placeholder
C5_Witness ==
    /\ Composing
    /\ last.shape.type = "video"
    /\ last.env.media = "undecodable"
    /\ last.env.fail = "none"
    /\ last.r.placeholder
    /\ calls = 2

\* C10: the bookmark of each date points at the page on which the first
\* message of the date is drawn.
C10_BookmarkAtFirstMessage ==
    \A i \in 1..Len(firstPages) : bookmarks[i + 1].page = firstPages[i]

(***************************************************************************)
(* Claims about the front end.                                             *)
(***************************************************************************)
\* C8: a missing, unparseable, non-list or empty transcript makes
\* generate_pdf return at the validation: the writer is never created,
\* nothing is drawn, nothing is written at the output path.
C8_InvalidTranscriptAborts ==
    InvalidTranscript(chat_file) =>
        /\ pc \in {"start", "aborted"}
        /\ ~canvas
        /\ calls = 0
        /\ finalFile = "absent"
        /\ sortPath = "none"

\* an existing file that holds an empty list was given and rejected
C8_Witness ==
    /\ pc = "aborted"
    /\ chat_file.kind = "path"
    /\ chat_file.json = "list"
    /\ chat_file.msgs = <<>>

Unparseable(m) == parse_timestamp(m.ct) = None /\ m.ct.rep # "none"
ParsedTime(m) == parse_timestamp(m.ct)

Sorted == pc \in {"grouped", "aborted", "compose"} /\ sortPath # "none"

\* C9: the sort completes and is stable, a message whose timestamp cannot be
\* parsed is ordered as timestamp zero, before every message with a positive
\* timestamp, and the dates are processed in ascending order.
C9_SortStableTotal ==
    Sorted =>
        /\ Len(chats) = Len(chat_file.msgs)
        /\ Range(chats) = Range(chat_file.msgs)
        /\ \A i, j \in 1..Len(chats) :
              (i < j) =>
                 /\ SortKeyOf(sortPath, chats[i]) <= SortKeyOf(sortPath, chats[j])
                 /\ SortKeyOf(sortPath, chats[i]) = SortKeyOf(sortPath, chats[j])
                       => chats[i].id < chats[j].id
        /\ \A i, j \in 1..Len(chats) :
              (Unparseable(chats[i]) /\ ParsedTime(chats[j]) > 0) => i < j
        /\ \A i \in 1..(Len(sorted_dates) - 1) : sorted_dates[i] < sorted_dates[i + 1]

(***************************************************************************)
(* Claims about the attach pass.                                           *)
(***************************************************************************)
\* C6: in every state of the attach pass, whichever step failed, one of the
\* final path, the draft copy and the rewritten temporary holds a complete
\* document.
C6_NoDataLoss ==
    pc \in {"saved", "copied", "written", "removed", "renamed", "done"} =>
        Complete(finalFile) \/ Complete(tempCopy) \/ Complete(outTemp)

\* the final path was removed and the rename failed
C6_Witness ==
    /\ pc = "done"
    /\ attachFail = "rename"
    /\ finalFile = "absent"
    /\ Complete(outTemp)

OutlineWritten ==
    pc \in {"written", "removed", "renamed"}
        \/ (pc = "done" /\ attachFail \in {"none", "rename"})

KeptBookmarks == {i \in 1..Len(bookmarks) : bookmarks[i].page < pageCount}
KeptIndex(k) ==
    CHOOSE i \in KeptBookmarks : Cardinality({j \in KeptBookmarks : j <= i}) = k

C11_BookmarkPerDate ==
    pc = "saved" =>
        /\ Len(bookmarks) = Cardinality(DOMAIN dates_dict) + 1
        /\ bookmarks[1] = TitleBookmark
        /\ \A i \in 2..Len(bookmarks) :
              /\ bookmarks[i].title = "date"
              /\ bookmarks[i].date \in DOMAIN dates_dict
              /\ bookmarks[i].count = Len(dates_dict[bookmarks[i].date])
        /\ \A i \in 2..(Len(bookmarks) - 1) :
              bookmarks[i].date < bookmarks[i + 1].date

\* a transcript given latest message first was saved with two date bookmarks
C11_Witness ==
    /\ pc = "saved"
    /\ Len(chat_file.msgs) = 2
    /\ chat_file.msgs[1].ct.t > chat_file.msgs[2].ct.t
    /\ Len(bookmarks) = 3
    /\ bookmarks[2].date < bookmarks[3].date

(***************************************************************************)
(* Claims about what the attach pass leaves at the output path.            *)
(***************************************************************************)
\* the file at the path the run reported last
ReportedFile ==
    CASE reported = "final" -> finalFile
      [] reported = "outTemp" -> outTemp
      [] reported = "tempCopy" -> tempCopy
      [] OTHER -> "absent"

\* C12: after a failure of the attach pass a complete document exists at the
\* output path, and the path reported last holds a complete document.
C12_DraftAtOutputPath ==
    (pc = "done" /\ attachFail # "none") =>
        /\ Complete(finalFile)
        /\ Complete(ReportedFile)

(***************************************************************************)
(* Claims about download_media_file.                                       *)
(***************************************************************************)
\* C13, as stated: two calls in succession for the same reference return the
\* same result, and the second call fetches nothing.
C13_TwiceSamePath ==
    Len(dm_calls) >= 2 =>
        /\ dm_calls[2].result = dm_calls[1].result
        /\ ~dm_calls[2].fetched

\* C13, amended: a call that follows a call which returned a cache path
\* returns the same path and fetches nothing; every path returned is the
\* cache path of the reference; a call fetches again only after a call that
\* returned null and left no cache file, and a call that follows one which
\* returned null but left a cache file returns the path of that file.
C13_HitAfterPath ==
    /\ \A i \in 1..Len(dm_calls) :
          dm_calls[i].result # NoPath => dm_calls[i].result = CachePath(dm_ref)
    /\ \A i \in 1..(Len(dm_calls) - 1) :
          /\ dm_calls[i].result # NoPath =>
                /\ dm_calls[i + 1].result = dm_calls[i].result
                /\ ~dm_calls[i + 1].fetched
                /\ ~dm_calls[i + 1].raised
          /\ dm_calls[i + 1].fetched =>
                /\ dm_ref.src = "url"
                /\ dm_calls[i].result = NoPath
                /\ dm_calls[i].cacheOut = "absent"
          /\ (dm_ref.src # "empty" /\ dm_calls[i].result = NoPath
                /\ dm_calls[i].cacheOut # "absent") =>
                dm_calls[i + 1].result = CachePath(dm_ref)

\* a URL was fetched and cached by the first call and served from the cache
\* by the second
C13_Witness ==
    /\ Len(dm_calls) = 2
    /\ dm_ref.src = "url"
    /\ dm_calls[1].fetched
    /\ dm_calls[1].result = CachePath(dm_ref)
    /\ dm_calls[2].result = CachePath(dm_ref)
    /\ ~dm_calls[2].fetched

RECURSIVE RenderedUpTo(_)
RenderedUpTo(k) ==
    IF k = 0 THEN <<>>
    ELSE RenderedUpTo(k - 1) \o dates_dict[sorted_dates[k]]
RenderOrder == RenderedUpTo(Len(sorted_dates))

\* C15: of two messages whose timestamps both parse, as digits or as a date
\* string, the one with the earlier parsed time is rendered first.
C15_RenderedInTimeOrder ==
    \A i, j \in 1..Len(RenderOrder) :
        (ParsedTime(RenderOrder[i]) # None /\ ParsedTime(RenderOrder[j]) # None
            /\ ParsedTime(RenderOrder[i]) < ParsedTime(RenderOrder[j])) => i < j

(***************************************************************************)
(* Claims about the exit status of a run.                                  *)
(***************************************************************************)
RunEnded == pc \in {"aborted", "crashed", "done"}

\* C16: a run that has ended has a non-zero exit status if and only if its
\* transcript was missing, empty or unparseable.
C16_NonZeroIffInputError ==
    RunEnded => ((ExitStatus # 0) <=> InvalidTranscript(chat_file))

(***************************************************************************)
(* The avatar pool                                                         *)
(***************************************************************************)
QueuedSet == {avatar_heads[i] : i \in 1..Len(avatar_heads)} \ {0}
PoolStarted == prepare_pc \in {"join", "stop", "returned"}
InHand(u) == \E w \in DOMAIN threads : threads[w].url = u

\* C17: each queued URL is taken by exactly one worker (it is taken at most
\* once, is in the hands of at most one worker, and has been taken once the
\* queue has been joined), and no cache file and no cache key is ever written
\* by two workers: each is written at most once during the run.
C17_OneWorkerPerUrl ==
    PoolStarted =>
        /\ \A u \in Urls : pool_log.taken[u] <= 1
        /\ \A u \in Urls : Cardinality({w \in DOMAIN threads : threads[w].url = u}) <= 1
        /\ \A f \in AvatarFiles : pool_log.fileWrites[f] <= 1
        /\ \A u \in Urls : pool_log.keyWrites[u] <= 1
        /\ prepare_pc \in {"stop", "returned"} =>
               \A u \in QueuedSet : pool_log.taken[u] = 1

\* two users share one URL, another URL is queued too, and two workers are
\* writing the files of the two URLs at the same time
C17_Witness ==
    /\ \E i, j \in 1..Len(avatar_heads) : i # j /\ avatar_heads[i] = avatar_heads[j]
                                          /\ avatar_heads[i] # 0
    /\ \E a, b \in DOMAIN threads :
          /\ a # b /\ threads[a].pc = "write" /\ threads[b].pc = "write"
          /\ threads[a].url # threads[b].url
          /\ pool_log.fileWrites[Md5(threads[a].url)] = 1
          /\ pool_log.fileWrites[Md5(threads[b].url)] = 1

Processed(u) == pool_log.done[u] = 1 /\ ~InHand(u)

\* C18: prepare_avatars eventually returns; when it has returned every queued
\* URL has been processed to the end (cached, or given up after a failure),
\* and from then on no worker writes the avatar cache or an avatar file.
C18_PoolDrained ==
    /\ <>(prepare_pc = "returned")
    /\ [](prepare_pc = "returned" => \A u \in QueuedSet : Processed(u))
    /\ [][prepare_pc = "returned" =>
             avatar_cache' = avatar_cache /\ avatar_files' = avatar_files]_vars

\* prepare_avatars has returned while a worker has not left yet; one URL was
\* cached and the download of another one failed
C18_Witness ==
    /\ prepare_pc = "returned"
    /\ \E w \in DOMAIN threads : threads[w].pc = "get"
    /\ \E u, v \in QueuedSet :
          /\ avatar_cache[u] = "image" /\ Processed(u)
          /\ avatar_cache[v] = "absent" /\ Processed(v)

(***************************************************************************)
(* get_string_width when fonts fail                                        *)
(***************************************************************************)
MeasurementFails(env) ==
    ~CanMeasure(env.emoji) /\ ~CanMeasure(env.primary) /\ ~CanMeasure(env.helvetica)

\* C19: no call of get_string_width raises, and a call that measures (no
\* cached width) while measurement fails in the emoji font, the primary font
\* and Helvetica returns len(text) * font_size * 0.6, whether the text
\* contains an emoji or not.
C19_NeverRaisesEstimates ==
    sw_n > 0 =>
        /\ ~sw_last.raised
        /\ (~sw_last.cached /\ MeasurementFails(sw_last.env)) =>
               sw_last.width = Estimate(sw_text)

NoEmojiStart == \A i \in 1..Len(sw_text) : sw_text[i] \notin {"E", "SK"}

\* C20: a call on a text without emoji-start codepoint whose whole-string
\* stringWidth call succeeds returns the value of that call, and so does
\* every later call: it finds the value in the cache and measures nothing.
C20_WholeStringWidth ==
    /\ (sw_n > 0 /\ NoEmojiStart /\ ~sw_last.cached
          /\ CanMeasure(sw_last.env.primary)) =>
           /\ ~sw_last.raised
           /\ sw_last.width = WholeString(sw_font, sw_text)
           /\ string_width_cache = WholeString(sw_font, sw_text)
           /\ sw_origin = "direct"
    /\ (sw_n > 0 /\ sw_origin = "direct") =>
           /\ string_width_cache = WholeString(sw_font, sw_text)
           /\ sw_last.width = WholeString(sw_font, sw_text)
           /\ ~sw_last.raised
           /\ ~sw_last.cached => CanMeasure(sw_last.env.primary)

\* a text of a plain character and a variant selector, no emoji: the second
\* call returns the cached width of the first call's whole-string measurement,
\* which counts the selector, while the primary font now fails
C20_Witness ==
    /\ sw_n = 2 /\ sw_last.cached /\ sw_origin = "direct"
    /\ sw_text = <<"P", "VS">> /\ sw_font.mod = 1
    /\ ~CanMeasure(sw_last.env.primary)
    /\ sw_last.width = 2 * font_size

(***************************************************************************)
(* The height asked for and the height drawn                               *)
(***************************************************************************)
\* the timestamp row and the bubble below it
DrawnHeight(r) == TimestampRow + (r.top - r.bottom)

\* C21: whatever the type of the message, the height of the pagination check
\* is at least the height then drawn (timestamp row plus bubble), and the
\* bubble drawn ends at or above the bottom margin.
C21_CheckCoversDrawn ==
    (Composing /\ last.r.bubble) =>
        /\ MessageHeight(last.shape) >= DrawnHeight(last.r)
        /\ last.r.bottom >= margin_bottom

(***************************************************************************)
(* The bubble of a text message                                            *)
(***************************************************************************)
TextDrawn == pc = "textdone"
HasEmoji(text) == \E i \in 1..Len(text) : text[i] \in {"E", "SK"}

\* C22: when selecting EmojiFont fails while a text bubble with an emoji is
\* drawn, every character of every line is drawn all the same and
\* draw_message returns the cursor minus max(bubble height, avatar height)
\* minus the gap, not the cursor minus the 5 mm of a failure.
C22_EmojiFontFallback ==
    (TextDrawn /\ td_out.env = "unknown" /\ HasEmoji(td_text)) =>
        /\ ~td_out.raised
        /\ td_out.drawn = td_out.lines
        /\ td_out.ret = (PageTop - TimestampRow)
                           - Max(TextBubble(Len(td_out.lines)), avatar_size)
                           - MessageGap

\* the width get_string_width measures for a line, in points
MeasuredWidth(line) ==
    font_size * get_string_width(MeasuringFont(td_font, td_out.env), line)
\* bubble_width minus its two paddings (lines 1626-1627)
InnerWidth ==
    LET widths == {MeasuredWidth(td_out.lines[i]) : i \in 1..Len(td_out.lines)}
    IN  Min(font_size * td_max, CHOOSE w \in widths : \A v \in widths : v <= w)

\* every line is narrower than text_max_width * 0.8, as the lines of a
\* message are on a page 210 mm wide
LinesFit ==
    /\ td_text # <<>>
    /\ \A i \in 1..Len(td_out.lines) :
          MeasuredWidth(td_out.lines[i]) <= font_size * td_max

\* C30: the horizontal advance applied while a line of a text bubble is
\* drawn character by character is at most the bubble width minus its two
\* paddings, the largest width get_string_width measures for a line.
C30_AdvanceWithinBubble ==
    (TextDrawn /\ LinesFit) =>
        \A i \in 1..Len(td_out.lines) : td_out.advances[i] <= InnerWidth

\* C23: for a URL reference, a call of download_media_file that returns a
\* path returns the path of a completely downloaded, non-empty cache file,
\* also after an earlier fetch failed midway or produced an empty file.
C23_PathOnlyToFullFile ==
    dm_ref.src = "url" =>
        \A k \in 1..Len(dm_calls) :
            dm_calls[k].result # NoPath => dm_calls[k].cacheOut = "full"

\* C24: get_real_media_path returns a path only for a file whose name is
\* derived from the reference's filename; for a voice reference with no such
\* file on disk it returns nothing, whatever other audio files exist.
C24_OnlyNamedFiles ==
    pc = "pathdone" =>
        /\ rp_out \in {"none", "direct", "byName"}
        /\ (rp_ref.type = "voice" /\ ~rp_disk.direct /\ ~rp_disk.byName) =>
               rp_out = "none"

\* C25: an image_quality q with 1 <= q <= 100 passed to generate_pdf is the
\* JPEG quality of every image compress_image saves during the run.
C25_QualityUsed ==
    (1 <= q_arg /\ q_arg <= MaxQuality) =>
        \A k \in 1..Len(q_used) : q_used[k] = q_arg

(***************************************************************************)
(* The date groups                                                         *)
(***************************************************************************)
\* the timestamp is there and denotes a time: a number other than 0, a
\* string of digits, or a date string
HasTime(m) ==
    m.ct.rep \in {"digits", "date"} \/ (m.ct.rep = "int" /\ m.ct.t # 0)
DayOf(m) == m.ct.t \div TicksPerDay
PlacesIn(m, d) == Cardinality({k \in 1..Len(dates_dict[d]) : dates_dict[d][k] = m})
TimesDrawn(m) == Cardinality({k \in 1..Len(RenderOrder) : RenderOrder[k] = m})

\* C26: a message whose timestamp is present and parseable is placed once in
\* the group of its calendar date and in no other group, and is passed once
\* to draw_message; a message whose timestamp is missing, 0 or unparseable is
\* in no group and is never drawn.
C26_OneGroupPerMessage ==
    Sorted =>
        \A i \in 1..Len(chat_file.msgs) :
            LET m == chat_file.msgs[i]
            IN  IF HasTime(m)
                THEN /\ DayOf(m) \in DOMAIN dates_dict
                     /\ \A d \in DOMAIN dates_dict :
                           PlacesIn(m, d) = (IF d = DayOf(m) THEN 1 ELSE 0)
                     /\ TimesDrawn(m) = 1
                ELSE /\ \A d \in DOMAIN dates_dict : PlacesIn(m, d) = 0
                     /\ TimesDrawn(m) = 0

\* a number 0, an unparseable string and a string of digits "0": only the
\* last one is grouped, under the first day
C26_Witness ==
    /\ pc = "compose"
    /\ \E i, j, k \in 1..Len(chat_file.msgs) :
          /\ chat_file.msgs[i].ct = [rep |-> "int", t |-> 0]
          /\ chat_file.msgs[j].ct = [rep |-> "bad", t |-> 0]
          /\ chat_file.msgs[k].ct = [rep |-> "digits", t |-> 0]
    /\ DOMAIN dates_dict = {0}
    /\ Len(dates_dict[0]) = 1

\* C27: when the draft is saved, every bookmark recorded during composition
\* has a page index below the page count of the draft, so that the attach
\* pass keeps them all.
C27_BookmarksWithinDraft ==
    pc = "saved" =>
        /\ \A k \in 1..Len(bookmarks) : bookmarks[k].page < pageCount
        /\ Len(OutlineOf(bookmarks, pageCount)) = Len(bookmarks)

(***************************************************************************)
(* Claims about the lines wrap_text returns.                               *)
(***************************************************************************)
RECURSIVE ConcatLines(_)
ConcatLines(lines) ==
    IF lines = <<>> THEN <<>> ELSE Head(lines) \o ConcatLines(Tail(lines))

\* C28: the lines wrap_text returns, concatenated in order, are exactly the
\* input text; no returned line is empty; the empty text gives the empty list.
C28_WrapPreservesText ==
    pc = "wrapped" =>
        /\ ConcatLines(w_lines) = w_text
        /\ \A k \in 1..Len(w_lines) : w_lines[k] # <<>>
        /\ (w_text = <<>> => w_lines = <<>>)

\* a text whose first unit is wider than max_width, so that the line before
\* it is empty when the unit is put on a line of its own, and text follows
C28_Witness ==
    /\ pc = "wrapped"
    /\ Len(w_text) >= 2
    /\ Len(w_lines) >= 2
    /\ get_string_width(w_font, w_lines[1]) > w_max
    /\ ConcatLines(w_lines) = w_text

\* what get_string_width measures for a returned line (lines 801-864)
LineWidth(font, line) ==
    SumWidths(font, line, \E i \in 1..Len(line) : IsEmojiStart(line[i]))
\* a line that is one unit: one codepoint, or one emoji cluster
IsOneUnit(line) ==
    \/ Len(line) = 1
    \/ /\ line # <<>>
       /\ ClusterStart(line, 1)
       /\ ClusterEnd(line, 1) = Len(line)

\* C29: every line wrap_text returns has a measured width of at most
\* max_width, or is exactly one unit (a character or an emoji cluster) that
\* is wider than max_width by itself.
C29_LinesFitOrSingleUnit ==
    pc = "wrapped" =>
        \A k \in 1..Len(w_lines) :
            \/ LineWidth(w_font, w_lines[k]) <= w_max
            \/ IsOneUnit(w_lines[k])

\* one returned line is a cluster of several codepoints wider than max_width,
\* another holds several units and fills max_width exactly
C29_Witness ==
    /\ pc = "wrapped"
    /\ \E k \in 1..Len(w_lines) :
          /\ LineWidth(w_font, w_lines[k]) > w_max
          /\ Len(w_lines[k]) >= 2
          /\ IsOneUnit(w_lines[k])
    /\ \E k \in 1..Len(w_lines) :
          /\ LineWidth(w_font, w_lines[k]) = w_max
          /\ Len(w_lines[k]) >= 2
          /\ ~IsOneUnit(w_lines[k])

====
